---- MODULE Spec2Model ----
(***************************************************************************)
(* Model of RiskAssessmentAgent (src/agents/risk_assessment_agent.py).     *)
(*                                                                         *)
(* Python dicts are functions with string domains; a missing key is a      *)
(* missing domain element.  An operator that can raise returns a record    *)
(* [raised |-> TRUE, exc |-> <type>] or [raised |-> FALSE, val |-> v].     *)
(*                                                                         *)
(* Numbers.  Money (prices, values) and quantities are integers.  Every    *)
(* fraction or percentage is a fixed-point integer in units of 1/FP:       *)
(* a shock of -0.6 is -6000, a percentage loss of 60 (%) is 600000, a      *)
(* score of 12.5 is 125000.  Products and quotients round at 1/FP.         *)
(***************************************************************************)
EXTENDS Integers, Sequences, FiniteSets, TLC

FP == 10000

\* ---------------------------------------------------------------- bounds
MaxHoldings == 3
MaxScenarios == 2

\* ------------------------------------------------------- python helpers
Get(d, k, default) == IF k \in DOMAIN d THEN d[k] ELSE default

Ok(v) == [raised |-> FALSE, val |-> v]

Raise(e) == [raised |-> TRUE, exc |-> e]

\* try: <body> / except Exception as e: return {'error': str(e)}
TryExcept(body) == IF body.raised THEN Ok([error |-> body.exc]) ELSE body

\* A dict in insertion order: a sequence of [key, value] entries.
DictKeys(d) == {d[i].key : i \in 1..Len(d)}

DictIndex(d, k) == CHOOSE i \in 1..Len(d) : d[i].key = k

DictGet(d, k) == d[DictIndex(d, k)].value

\* d.get(k, default)
DictGetOr(d, k, default) == IF k \in DictKeys(d) THEN DictGet(d, k) ELSE default

\* d[k] = v : a new key is appended, an existing key keeps its position.
DictSet(d, k, v) ==
  IF k \in DictKeys(d)
  THEN [d EXCEPT ![DictIndex(d, k)] = [key |-> k, value |-> v]]
  ELSE Append(d, [key |-> k, value |-> v])

\* a / b for b > 0, rounded to the nearest unit
Div(a, b) == ((2 * a) + b) \div (2 * b)

RECURSIVE SumSeq(_)
SumSeq(s) == IF s = <<>> THEN 0 ELSE Head(s) + SumSeq(Tail(s))

\* A float that is not a number.  It is only ever tested with IsNaN and
\* combined through the F* operators, which propagate it; every ordering
\* comparison with it is false, as in IEEE 754.
NaN == -999999999

IsNaN(x) == x = NaN

FLess(a, b) == ~IsNaN(a) /\ ~IsNaN(b) /\ a < b

FAbs(x) == IF IsNaN(x) THEN NaN ELSE IF x < 0 THEN -x ELSE x

FScale(x, k) == IF IsNaN(x) THEN NaN ELSE x * k

FSub(a, b) == IF IsNaN(a) \/ IsNaN(b) THEN NaN ELSE a - b

\* builtin max(a, b) and min(a, b): the first argument wins unless the
\* second compares strictly greater (smaller).
PyMax(a, b) == IF FLess(a, b) THEN b ELSE a

PyMin(a, b) == IF FLess(b, a) THEN b ELSE a

\* ------------------------------------------------------ numeric helpers
Abs(x) == IF x < 0 THEN -x ELSE x

RECURSIVE ISqrtBits(_, _, _)
ISqrtBits(n, r, b) ==
  IF b = 0 THEN r
  ELSE ISqrtBits(n, IF (r + b) * (r + b) <= n THEN r + b ELSE r, b \div 2)

\* floor(sqrt(n)) for 0 <= n < 2^30
ISqrt(n) == ISqrtBits(n, 0, 16384)

Mean(xs) == Div(SumSeq(xs), Len(xs))

\* sum of (x - mean(x)) * (y - mean(y))
SumDev(xs, ys) ==
  LET mx == Mean(xs)
      my == Mean(ys)
  IN SumSeq([i \in 1..Len(xs) |-> (xs[i] - mx) * (ys[i] - my)])

\* np.std: the population standard deviation (ddof = 0)
NpStd(xs) == ISqrt(Div(SumDev(xs, xs), Len(xs)))

RECURSIVE Insert(_, _)
Insert(x, s) ==
  IF s = <<>> THEN <<x>>
  ELSE IF x <= Head(s) THEN <<x>> \o s
  ELSE <<Head(s)>> \o Insert(x, Tail(s))

RECURSIVE Sorted(_)
Sorted(s) == IF s = <<>> THEN <<>> ELSE Insert(Head(s), Sorted(Tail(s)))

\* np.percentile(xs, q), linear interpolation between the closest ranks
\* (q is the percentage in units of 1/FP)
\* (variant: the percentile counted from the upper end)
NpPercentile_upper(xs, q) ==
  LET s == Sorted(xs)
      pos == ((Len(xs) - 1) * ((100 * FP) - q)) \div 100
      lo == (pos \div FP) + 1
      frac == pos % FP
  IN IF frac = 0 THEN s[lo]
     ELSE s[lo] + Div((s[lo + 1] - s[lo]) * frac, FP)

NpPercentile(xs, q) ==
  LET s == Sorted(xs)
      pos == ((Len(xs) - 1) * q) \div 100
      lo == (pos \div FP) + 1
      frac == pos % FP
  IN IF frac = 0 THEN s[lo]
     ELSE s[lo] + Div((s[lo + 1] - s[lo]) * frac, FP)

\* xs[-n:]
LastN(xs, n) == IF n >= Len(xs) THEN xs ELSE SubSeq(xs, Len(xs) - n + 1, Len(xs))

\* sqrt(365) in units of 1/FP
Sqrt365 == 191050

\* self.risk_free_rate / 365 = 0.02 / 365, in units of 1/(FP * FP)
DailyRiskFree == 5479

Window == 30

\* ------------------------------------------------------------ constants
Symbols == {"BTC", "ETH"}

get_default_stress_scenarios ==
  << [name |-> "market_crash", description |-> "Severe market crash scenario",
      shocks |-> [k \in {"all"} |-> -5000]],
     [name |-> "crypto_winter", description |-> "Extended bear market",
      shocks |-> [k \in {"all"} |-> -8000]],
     [name |-> "bitcoin_crash", description |-> "Bitcoin-specific crash",
      shocks |-> [k \in {"BTC", "others"} |-> IF k = "BTC" THEN -6000 ELSE -3000]],
     [name |-> "defi_collapse", description |-> "DeFi sector collapse",
      shocks |-> [k \in {"DeFi", "others"} |-> IF k = "DeFi" THEN -7000 ELSE -2000]],
     [name |-> "regulatory_crackdown", description |-> "Major regulatory restrictions",
      shocks |-> [k \in {"all"} |-> -4000]] >>

\* ------------------------------------------------- _apply_stress_scenario
\* "Determine shock to apply": the if / elif / elif chain of the source.
resolve_shock(symbol, shocks) ==
  IF "all" \in DOMAIN shocks THEN shocks["all"]
  ELSE IF symbol \in DOMAIN shocks THEN shocks[symbol]
  ELSE IF "others" \in DOMAIN shocks THEN shocks["others"]
  ELSE 0

current_price_of(price_data, symbol) ==
  Get(Get(price_data, symbol, <<>>), "current_price", 0)

\* One iteration of the loop over the holdings: acc is
\* [new_value, asset_impacts]; a holding without 'symbol' or 'quantity'
\* raises KeyError.
RECURSIVE apply_holdings(_, _, _, _)
apply_holdings(holdings, shocks, price_data, acc) ==
  IF holdings = <<>> THEN Ok(acc)
  ELSE LET holding == Head(holdings) IN
    IF "symbol" \notin DOMAIN holding \/ "quantity" \notin DOMAIN holding
    THEN Raise("KeyError")
    ELSE LET symbol == holding.symbol
             quantity == holding.quantity
             current_price == current_price_of(price_data, symbol)
             shock == resolve_shock(symbol, shocks)
             new_price == Div(current_price * (FP + shock), FP)
             new_asset_value == quantity * new_price
         IN apply_holdings(Tail(holdings), shocks, price_data,
              [new_value |-> acc.new_value + new_asset_value,
               asset_impacts |-> DictSet(acc.asset_impacts, symbol,
                    [original_price |-> current_price,
                     new_price |-> new_price,
                     shock_applied |-> shock,
                     value_change |-> new_asset_value - (quantity * current_price)])])

apply_stress_scenario(portfolio, shocks, price_data) ==
  apply_holdings(Get(portfolio, "holdings", <<>>), shocks, price_data,
                 [new_value |-> 0, asset_impacts |-> <<>>])

\* ---------------------------------------------------- perform_stress_test
\* The scenarios argument: None (the default) or a list of scenarios.
NoneScenarios == [is_none |-> TRUE, list |-> <<>>]

ListScenarios(l) == [is_none |-> FALSE, list |-> l]

\* The loop over the scenarios; acc is stress_results['scenarios'].
RECURSIVE stress_scenarios(_, _, _, _, _)
stress_scenarios(scenarios, portfolio, price_data, portfolio_value, acc) ==
  IF scenarios = <<>> THEN Ok(acc)
  ELSE LET scenario == Head(scenarios)
           scenario_result == apply_stress_scenario(portfolio, scenario.shocks, price_data)
       IN IF scenario_result.raised THEN scenario_result
          ELSE IF portfolio_value = 0 THEN Raise("ZeroDivisionError")
          ELSE LET new_value == scenario_result.val.new_value IN
            stress_scenarios(Tail(scenarios), portfolio, price_data, portfolio_value,
              DictSet(acc, scenario.name,
                [description |-> Get(scenario, "description", ""),
                 portfolio_value_before |-> portfolio_value,
                 portfolio_value_after |-> new_value,
                 absolute_loss |-> portfolio_value - new_value,
                 percentage_loss |-> Div((portfolio_value - new_value) * FP, portfolio_value) * 100,
                 asset_impacts |-> scenario_result.val.asset_impacts]))

\* (variant: the last minimal entry)
worst_scenario_last(d) ==
  d[CHOOSE i \in 1..Len(d) :
      /\ \A j \in 1..Len(d) : d[i].value.portfolio_value_after <= d[j].value.portfolio_value_after
      /\ \A j \in (i + 1)..Len(d) : d[j].value.portfolio_value_after > d[i].value.portfolio_value_after]

\* min(items, key=portfolio_value_after): the first minimal entry.
worst_scenario(d) ==
  d[CHOOSE i \in 1..Len(d) :
      /\ \A j \in 1..Len(d) : d[i].value.portfolio_value_after <= d[j].value.portfolio_value_after
      /\ \A j \in 1..(i - 1) : d[j].value.portfolio_value_after > d[i].value.portfolio_value_after]

\* the try block of lines 210-253; min() of no scenario raises ValueError
perform_stress_test_try(portfolio, price_data, scenarios_arg) ==
  LET scenarios == IF scenarios_arg.is_none THEN get_default_stress_scenarios
                   ELSE scenarios_arg.list
      portfolio_value == Get(portfolio, "total_value", 0)
      looped == stress_scenarios(scenarios, portfolio, price_data, portfolio_value, <<>>)
  IN IF looped.raised THEN looped
     ELSE IF looped.val = <<>> THEN Raise("ValueError")
     ELSE LET worst == worst_scenario(looped.val)
              avg_loss == Mean([i \in 1..Len(looped.val) |-> looped.val[i].value.percentage_loss])
              resilience_score == PyMax(0, 100 * FP - avg_loss)
          IN Ok([scenarios |-> looped.val,
                 worst_case_scenario |-> [scenario_name |-> worst.key, details |-> worst.value],
                 portfolio_resilience_score |-> resilience_score])

\* (variant: the stress test without its except clause)
perform_stress_test_unguarded(portfolio, price_data, scenarios_arg) ==
  perform_stress_test_try(portfolio, price_data, scenarios_arg)

perform_stress_test(portfolio, price_data, scenarios_arg) ==
  TryExcept(perform_stress_test_try(portfolio, price_data, scenarios_arg))

\* ------------------------------------------------------ _calculate_returns
HasBadPrice(prices) == \E i \in 1..Len(prices) : "price" \notin DOMAIN prices[i]

\* float infinities, the quotients numpy yields for x / 0 with x # 0
PosInf == 999999999

NegInf == -999999998

\* diff / price as numpy divides: by a zero price the result is inf, -inf
\* or (0 / 0) nan, with a warning and no exception
NpDivide(diff, price) ==
  IF price > 0 THEN Div(diff * FP, price)
  ELSE IF price < 0 THEN -Div(diff * FP, -price)
  ELSE IF diff > 0 THEN PosInf
  ELSE IF diff < 0 THEN NegInf
  ELSE NaN

calculate_returns(pd) ==
  LET prices == Get(pd, "prices", <<>>) IN
  IF Len(prices) < 2 THEN Ok(<<>>)
  ELSE IF HasBadPrice(prices) THEN Raise("KeyError")
  ELSE Ok([i \in 1..(Len(prices) - 1) |->
             NpDivide(prices[i + 1].price - prices[i].price, prices[i].price)])

\* --------------------------------------------------- per-asset metrics
\* (variant: the volatility of any series of two or more returns)
calculate_volatility_short(pd) ==
  LET returns == calculate_returns(pd) IN
  IF returns.raised THEN returns
  ELSE IF Len(returns.val) < 2 THEN Ok(0)
  ELSE Ok(Div(NpStd(LastN(returns.val, Window)) * Sqrt365, FP))

calculate_volatility(pd) ==
  LET returns == calculate_returns(pd) IN
  IF returns.raised THEN returns
  ELSE IF Len(returns.val) < Window THEN Ok(0)
  ELSE Ok(Div(NpStd(LastN(returns.val, Window)) * Sqrt365, FP))

\* np.cumprod(1 + returns)
RECURSIVE CumProd(_, _)
CumProd(returns, prev) ==
  IF returns = <<>> THEN <<>>
  ELSE LET c == Div(prev * (FP + Head(returns)), FP)
       IN <<c>> \o CumProd(Tail(returns), c)

\* (variant: the overall maximum at every position)
RunningMax_overall(xs, prev) ==
  [i \in 1..Len(xs) |-> CHOOSE m \in {xs[j] : j \in 1..Len(xs)} : \A j \in 1..Len(xs) : xs[j] <= m]

\* np.maximum.accumulate
RECURSIVE RunningMax(_, _)
RunningMax(xs, prev) ==
  IF xs = <<>> THEN <<>>
  ELSE LET m == IF Head(xs) > prev THEN Head(xs) ELSE prev
       IN <<m>> \o RunningMax(Tail(xs), m)

SeqMin(xs) == CHOOSE m \in {xs[i] : i \in 1..Len(xs)} : \A i \in 1..Len(xs) : m <= xs[i]

\* abs(min((cumulative - running_max) / running_max)) over a return series
DrawdownOfReturns(returns) ==
  LET cumulative == CumProd(returns, FP)
      running_max == RunningMax(cumulative, cumulative[1])
      drawdown == [i \in 1..Len(cumulative) |->
                     Div((cumulative[i] - running_max[i]) * FP, running_max[i])]
  IN Abs(SeqMin(drawdown))

calculate_max_drawdown(pd) ==
  LET prices == Get(pd, "prices", <<>>) IN
  IF Len(prices) < 2 THEN Ok(0)
  ELSE IF HasBadPrice(prices) THEN Raise("KeyError")
  ELSE Ok(DrawdownOfReturns(calculate_returns(pd).val))

\* market_volatility = 0.02
MarketVolatility == 200

calculate_beta(pd) ==
  LET returns == calculate_returns(pd) IN
  IF returns.raised THEN returns
  ELSE IF Len(returns.val) < 30 THEN Ok(FP)
  ELSE Ok(Div(NpStd(returns.val) * FP, MarketVolatility))

\* (mean - risk_free / 365) / std, the numerator kept in units of 1/(FP * FP)
ExcessOverStd(returns, std) ==
  IF std > 0
  THEN Div(Div(SumSeq(returns) * FP, Len(returns)) - DailyRiskFree, std)
  ELSE 0

calculate_sharpe_ratio(pd) ==
  LET returns == calculate_returns(pd) IN
  IF returns.raised THEN returns
  ELSE IF Len(returns.val) = 0 THEN Ok(0)
  ELSE Ok(ExcessOverStd(returns.val, NpStd(returns.val)))

\* (variant: the profile with a risk_level of its own)
assess_asset_risk_of_leveled(asset, pd) ==
  LET volatility == calculate_volatility(pd)
      max_drawdown == calculate_max_drawdown(pd)
      beta == calculate_beta(pd)
      sharpe_ratio == calculate_sharpe_ratio(pd)
  IN IF volatility.raised THEN volatility
     ELSE Ok([symbol |-> asset.symbol,
              weight |-> asset.weight,
              volatility |-> volatility.val,
              max_drawdown |-> max_drawdown.val,
              beta |-> beta.val,
              sharpe_ratio |-> sharpe_ratio.val,
              risk_contribution |-> Div(asset.weight * volatility.val, FP),
              risk_level |-> IF volatility.val > 0 THEN "high" ELSE "low"])

assess_asset_risk_of(asset, pd) ==
  LET volatility == calculate_volatility(pd)
      max_drawdown == calculate_max_drawdown(pd)
      beta == calculate_beta(pd)
      sharpe_ratio == calculate_sharpe_ratio(pd)
  IN IF volatility.raised THEN volatility
     ELSE Ok([symbol |-> asset.symbol,
              weight |-> asset.weight,
              volatility |-> volatility.val,
              max_drawdown |-> max_drawdown.val,
              beta |-> beta.val,
              sharpe_ratio |-> sharpe_ratio.val,
              risk_contribution |-> Div(asset.weight * volatility.val, FP)])

\* ------------------------------------------------ _prepare_portfolio_data
RECURSIVE prepare_assets(_, _)
prepare_assets(holdings, price_data) ==
  IF holdings = <<>> THEN Ok(<<>>)
  ELSE LET holding == Head(holdings) IN
    IF "symbol" \notin DOMAIN holding \/ "quantity" \notin DOMAIN holding
    THEN Raise("KeyError")
    ELSE LET rest == prepare_assets(Tail(holdings), price_data)
             current_price == current_price_of(price_data, holding.symbol)
         IN IF rest.raised THEN rest
            ELSE Ok(<<[symbol |-> holding.symbol,
                       quantity |-> holding.quantity,
                       current_price |-> current_price,
                       value |-> holding.quantity * current_price,
                       weight |-> 0]>> \o rest.val)

prepare_portfolio_data(portfolio, price_data) ==
  LET prepared == prepare_assets(Get(portfolio, "holdings", <<>>), price_data) IN
  IF prepared.raised THEN prepared
  ELSE LET assets == prepared.val
           total_value == SumSeq([i \in 1..Len(assets) |-> assets[i].value])
       IN Ok([assets |-> [i \in 1..Len(assets) |->
                 [assets[i] EXCEPT !.weight =
                    IF total_value > 0 THEN Div(assets[i].value * FP, total_value) ELSE 0]],
              total_value |-> total_value,
              asset_count |-> Len(assets)])

\* -------------------------------------------- _calculate_portfolio_returns
\* The first loop: asset_returns, a dict symbol -> returns, of the assets
\* whose return series is not empty.
RECURSIVE collect_returns(_, _, _)
collect_returns(assets, price_data, acc) ==
  IF assets = <<>> THEN Ok(acc)
  ELSE LET asset == Head(assets) IN
    IF "symbol" \notin DOMAIN asset THEN Raise("KeyError")
    ELSE LET returns == calculate_returns(Get(price_data, asset.symbol, <<>>)) IN
      IF returns.raised THEN returns
      ELSE collect_returns(Tail(assets), price_data,
             IF Len(returns.val) > 0 THEN DictSet(acc, asset.symbol, returns.val) ELSE acc)

\* min(len(returns)) over the collected series
MinLength(asset_returns) ==
  CHOOSE m \in {Len(asset_returns[i].value) : i \in 1..Len(asset_returns)} :
    \A i \in 1..Len(asset_returns) : m <= Len(asset_returns[i].value)

\* (variant: returns[i], counted from the start of the series)
FromEnd_start(returns, min_length, i) == returns[i + 1]

\* returns[-(min_length - i)] with i counted from 0
FromEnd(returns, min_length, i) == returns[Len(returns) - (min_length - i) + 1]

calculate_portfolio_returns(portfolio_data, price_data) ==
  IF "assets" \notin DOMAIN portfolio_data THEN Raise("KeyError")
  ELSE LET assets == portfolio_data.assets
           collected == collect_returns(assets, price_data, <<>>)
       IN IF collected.raised THEN collected
          ELSE IF collected.val = <<>> THEN Ok(<<>>)
          ELSE IF \E a \in 1..Len(assets) :
                    /\ assets[a].symbol \in DictKeys(collected.val)
                    /\ "weight" \notin DOMAIN assets[a]
               THEN Raise("KeyError")
          ELSE LET asset_returns == collected.val
                   min_length == MinLength(asset_returns)
               IN Ok([n \in 1..min_length |->
                        SumSeq([a \in 1..Len(assets) |->
                          IF assets[a].symbol \in DictKeys(asset_returns)
                          THEN Div(assets[a].weight *
                                   FromEnd(DictGet(asset_returns, assets[a].symbol),
                                           min_length, n - 1), FP)
                          ELSE 0])])

\* ---------------------------------------------------------- calculate_var
\* f'{confidence:.0%}' for a confidence in units of 1/FP: the percentage
\* rounded to an integer (half to even) followed by '%'.
ConfidencePercent(confidence) ==
  LET whole == confidence \div 100
      rest == confidence % 100
  IN IF rest > 50 \/ (rest = 50 /\ whole % 2 = 1) THEN whole + 1 ELSE whole

ConfidenceKey(confidence) == ToString(ConfidencePercent(confidence)) \o "%"

\* scipy.stats.norm.ppf(1 - confidence), tabulated in units of 1/FP
NormPpf(p) ==
  CASE p = 1000 -> -12816
    [] p = 500 -> -16449
    [] p = 490 -> -16546
    [] p = 100 -> -23263
    [] p = 50 -> -25758

TailReturns(returns, var_value) ==
  SelectSeq(returns, LAMBDA r : r <= var_value)

\* The loop of lines 164-183; np.percentile raises ValueError for a
\* percentile outside [0, 100].
RECURSIVE var_levels(_, _, _, _)
var_levels(levels, returns, total_value, acc) ==
  IF levels = <<>> THEN Ok(acc)
  ELSE LET confidence == Head(levels)
           var_percentile == (FP - confidence) * 100
           var_value == NpPercentile(returns, var_percentile)
           tail_returns == TailReturns(returns, var_value)
           expected_shortfall == IF Len(tail_returns) > 0 THEN Mean(tail_returns)
                                 ELSE var_value
       IN IF var_percentile < 0 \/ var_percentile > 100 * FP THEN Raise("ValueError")
          ELSE var_levels(Tail(levels), returns, total_value,
            [var_estimates |-> DictSet(acc.var_estimates, ConfidenceKey(confidence),
               [var_absolute |-> var_value,
                var_percentage |-> var_value * 100,
                var_dollar |-> var_value * total_value]),
             expected_shortfall |-> DictSet(acc.expected_shortfall, ConfidenceKey(confidence),
               [es_absolute |-> expected_shortfall,
                es_percentage |-> expected_shortfall * 100,
                es_dollar |-> expected_shortfall * total_value])])

RECURSIVE parametric_levels(_, _, _, _)
parametric_levels(levels, returns_mean, returns_std, acc) ==
  IF levels = <<>> THEN acc
  ELSE LET confidence == Head(levels)
           z_score == NormPpf(FP - confidence)
           parametric_var == returns_mean + Div(z_score * returns_std, FP)
       IN parametric_levels(Tail(levels), returns_mean, returns_std,
            DictSet(acc, ConfidenceKey(confidence),
              [var_absolute |-> parametric_var,
               var_percentage |-> parametric_var * 100]))

\* line 160: the fewest portfolio returns a VaR is computed from
MinVarObservations == 30

\* the try block of lines 149-199
calculate_var_try(portfolio, price_data, levels) ==
  LET portfolio_returns == calculate_portfolio_returns(portfolio, price_data) IN
  IF portfolio_returns.raised THEN portfolio_returns
  ELSE IF Len(portfolio_returns.val) < MinVarObservations
       THEN Ok([error |-> "Insufficient data for VaR calculation"])
  ELSE LET returns == portfolio_returns.val
           looped == var_levels(levels, returns,
                                Get(portfolio, "total_value", 0),
                                [var_estimates |-> <<>>, expected_shortfall |-> <<>>])
           historical == looped.val
       IN IF looped.raised THEN looped
          ELSE
          Ok([confidence_levels |-> levels,
              var_estimates |-> historical.var_estimates,
              expected_shortfall |-> historical.expected_shortfall,
              methodology |-> "historical_simulation",
              parametric_var |-> parametric_levels(levels, Mean(returns),
                                                   NpStd(returns), <<>>)])

\* (variant: calculate_var without its except clause)
calculate_var_unguarded(portfolio, price_data, levels) ==
  calculate_var_try(portfolio, price_data, levels)

calculate_var(portfolio, price_data, levels) ==
  TryExcept(calculate_var_try(portfolio, price_data, levels))

DefaultConfidenceLevels == <<9500, 9900>>

\* --------------------------------------- _calculate_portfolio_risk_metrics
calculate_sortino_ratio(returns) ==
  IF Len(returns) = 0 THEN 0
  ELSE LET downside_returns == SelectSeq(returns, LAMBDA r : r < 0)
           downside_std == IF Len(downside_returns) > 0 THEN NpStd(downside_returns)
                           ELSE NpStd(returns)
       IN ExcessOverStd(returns, downside_std)

calculate_portfolio_max_drawdown(returns) ==
  IF Len(returns) = 0 THEN 0 ELSE DrawdownOfReturns(returns)

\* (skewness and kurtosis, two scipy statistics nothing else reads, are
\* left out of the dict)
risk_metrics_try(pdata, price_data) ==
  LET portfolio_returns == calculate_portfolio_returns(pdata, price_data) IN
  IF portfolio_returns.raised THEN portfolio_returns
  ELSE IF Len(portfolio_returns.val) = 0 THEN Ok([error |-> "No return data available"])
  ELSE LET returns == portfolio_returns.val
           returns_std == NpStd(returns)
       IN Ok([daily_return_mean |-> Mean(returns),
              daily_volatility |-> returns_std,
              annual_volatility |-> Div(returns_std * Sqrt365, FP),
              sharpe_ratio |-> ExcessOverStd(returns, returns_std),
              sortino_ratio |-> calculate_sortino_ratio(returns),
              max_drawdown |-> calculate_portfolio_max_drawdown(returns),
              var_95 |-> NpPercentile(returns, 5 * FP),
              var_99 |-> NpPercentile(returns, 1 * FP)])

calculate_portfolio_risk_metrics(pdata, price_data) ==
  TryExcept(risk_metrics_try(pdata, price_data))

\* ----------------------------------------- _analyze_portfolio_correlations
MinCorrelationLength == 10

\* Pearson correlation of two aligned series, to two decimals; NaN when a
\* series has no variance (DataFrame.corr).
Pearson(xs, ys) ==
  LET den == ISqrt(SumDev(xs, xs)) * ISqrt(SumDev(ys, ys))
      sxy == SumDev(xs, ys)
  IN IF den = 0 THEN NaN
     ELSE Div(sxy * 100, den) * 100

\* the entries above the diagonal, np.triu_indices_from(..., k=1)
UpperPairs(n) == {p \in (1..n) \X (1..n) : p[1] < p[2]}

RECURSIVE SumSet(_, _)
SumSet(f, S) ==
  IF S = {} THEN 0
  ELSE LET x == CHOOSE y \in S : TRUE IN f[x] + SumSet(f, S \ {x})

\* DataFrame.std and DataFrame.cov: the sample statistics (ddof = 1)
SampleStd(xs) == ISqrt(Div(SumDev(xs, xs), Len(xs) - 1))

SampleCov(xs, ys) == Div(SumDev(xs, ys), Len(xs) - 1)

\* sqrt(w . cov . w); the source returns 0.0 when the product raises
calculate_portfolio_volatility(weights, cols) ==
  IF Len(weights) # Len(cols) THEN 0
  ELSE LET n == Len(cols)
           term == [p \in (1..n) \X (1..n) |->
                      Div(weights[p[1]] * Div(SampleCov(cols[p[1]], cols[p[2]]) * weights[p[2]], FP),
                          FP)]
       IN ISqrt(SumSet(term, (1..n) \X (1..n)))

categorize_diversification(avg_correlation) ==
  IF FLess(avg_correlation, 2000) THEN "excellent"
  ELSE IF FLess(avg_correlation, 4000) THEN "good"
  ELSE IF FLess(avg_correlation, 6000) THEN "moderate"
  ELSE IF FLess(avg_correlation, 8000) THEN "poor"
  ELSE "very_poor"

\* correlation_matrix.to_dict(): symbol -> symbol -> correlation, the
\* diagonal 1.0 (NaN for a series without variance)
correlation_matrix_of(returns_data, cols) ==
  [a \in DictKeys(returns_data) |-> [b \in DictKeys(returns_data) |->
     LET i == DictIndex(returns_data, a)
         j == DictIndex(returns_data, b)
     IN IF i # j THEN Pearson(cols[i], cols[j])
        ELSE IF SumDev(cols[i], cols[i]) = 0 THEN NaN ELSE FP]]

\* (the highly_correlated_pairs entry, which no other stage reads, is left
\* out of the dict)
correlations_try(pdata, price_data) ==
  LET assets == pdata.assets IN
  IF Len(assets) < 2 THEN Ok([message |-> "Need at least 2 assets for correlation analysis"])
  ELSE LET collected == collect_returns(assets, price_data, <<>>) IN
    IF collected.raised THEN collected
    ELSE IF Len(collected.val) < 2 \/ MinLength(collected.val) < MinCorrelationLength
         THEN Ok([error |-> "Insufficient data for correlation analysis"])
    ELSE LET returns_data == collected.val
             min_length == MinLength(returns_data)
             cols == [i \in 1..Len(returns_data) |-> LastN(returns_data[i].value, min_length)]
             pairs == UpperPairs(Len(cols))
             corr == [p \in pairs |-> Pearson(cols[p[1]], cols[p[2]])]
             any_nan == \E p \in pairs : IsNaN(corr[p])
             avg_correlation == IF any_nan THEN NaN
                                ELSE Div(SumSet(corr, pairs), Cardinality(pairs))
             max_correlation == IF any_nan THEN NaN
                                ELSE CHOOSE m \in {corr[p] : p \in pairs} :
                                       \A p \in pairs : corr[p] <= m
             min_correlation == IF any_nan THEN NaN
                                ELSE CHOOSE m \in {corr[p] : p \in pairs} :
                                       \A p \in pairs : corr[p] >= m
             weights == [i \in 1..Len(assets) |-> assets[i].weight]
             portfolio_volatility == calculate_portfolio_volatility(weights, cols)
         IN IF Len(weights) > Len(cols) THEN Raise("IndexError")
            ELSE LET weighted_avg_volatility ==
                       SumSeq([i \in 1..Len(weights) |-> Div(weights[i] * SampleStd(cols[i]), FP)])
                 IN Ok([correlation_matrix |-> correlation_matrix_of(returns_data, cols),
                        average_correlation |-> avg_correlation,
                        max_correlation |-> max_correlation,
                        min_correlation |-> min_correlation,
                        diversification_ratio |->
                          IF portfolio_volatility > 0
                          THEN Div(weighted_avg_volatility * FP, portfolio_volatility)
                          ELSE FP,
                        diversification_level |-> categorize_diversification(avg_correlation)])

analyze_portfolio_correlations(pdata, price_data) ==
  TryExcept(correlations_try(pdata, price_data))

\* -------------------------------------------- _calculate_overall_risk_score
\* the weights 0.3, 0.25, 0.2, 0.25 in units of 1/100
ScoreWeights == <<30, 25, 20, 25>>

\* np.average(scores, weights=weights)
NpAverage(scores, weights) ==
  IF \E i \in 1..Len(scores) : IsNaN(scores[i]) THEN NaN
  ELSE Div(SumSeq([i \in 1..Len(scores) |-> scores[i] * weights[i]]), SumSeq(weights))

\* (variant: the weighted average returned without the final clamp)
calculate_overall_risk_score_unclamped(risk_assessment) ==
  NpAverage(<<PyMin(100 * FP, FScale(Get(Get(risk_assessment, "risk_metrics", <<>>),
                                         "annual_volatility", 0), 100)),
              PyMin(100 * FP, FAbs(Get(DictGetOr(Get(Get(risk_assessment, "var_analysis", <<>>),
                                                     "var_estimates", <<>>), "95%", <<>>),
                                       "var_percentage", 0))),
              FScale(FAbs(Get(Get(risk_assessment, "correlation_analysis", <<>>),
                              "average_correlation", 0)), 100),
              FSub(100 * FP, Get(Get(risk_assessment, "stress_test_results", <<>>),
                                 "portfolio_resilience_score", 50 * FP))>>,
            ScoreWeights)

\* (the operations of the try block do not raise on dict sub-results, so
\* the except clause of lines 443-445 is never entered)
calculate_overall_risk_score(risk_assessment) ==
  LET volatility == Get(Get(risk_assessment, "risk_metrics", <<>>), "annual_volatility", 0)
      volatility_score == PyMin(100 * FP, FScale(volatility, 100))
      var_95 == FAbs(Get(DictGetOr(Get(Get(risk_assessment, "var_analysis", <<>>),
                                       "var_estimates", <<>>), "95%", <<>>),
                         "var_percentage", 0))
      var_score == PyMin(100 * FP, var_95)
      avg_correlation == Get(Get(risk_assessment, "correlation_analysis", <<>>),
                             "average_correlation", 0)
      correlation_score == FScale(FAbs(avg_correlation), 100)
      resilience_score == Get(Get(risk_assessment, "stress_test_results", <<>>),
                              "portfolio_resilience_score", 50 * FP)
      stress_score == FSub(100 * FP, resilience_score)
      scores == <<volatility_score, var_score, correlation_score, stress_score>>
      overall_score == NpAverage(scores, ScoreWeights)
  IN PyMin(100 * FP, PyMax(0, overall_score))

categorize_risk_level(risk_score) ==
  IF risk_score < 20 * FP THEN "very_low"
  ELSE IF risk_score < 40 * FP THEN "low"
  ELSE IF risk_score < 60 * FP THEN "medium"
  ELSE IF risk_score < 80 * FP THEN "high"
  ELSE "very_high"

\* ------------------------------------------- _generate_risk_recommendations
RecReduce == "Consider reducing position sizes to lower overall portfolio risk"

RecStopLoss == "Implement stop-loss orders to limit downside exposure"

RecVolatility == "Portfolio exhibits very high volatility - consider diversification"

RecCorrelation == "High correlation between assets - consider adding uncorrelated assets"

RecVar == "High Value at Risk detected - consider hedging strategies"

RecResilience == "Portfolio shows low resilience to stress scenarios"

RecHighRiskAssets == "High-risk assets detected"

RecAcceptable == "Portfolio risk appears to be within acceptable levels"

\* (variant: the rules chained with elif, so that only the first one fires)
fired_recommendations_elif(risk_assessment) ==
  LET risk_level == Get(risk_assessment, "risk_level", "medium")
      volatility == Get(Get(risk_assessment, "risk_metrics", <<>>), "annual_volatility", 0)
      avg_correlation == Get(Get(risk_assessment, "correlation_analysis", <<>>),
                             "average_correlation", 0)
      var_95 == FAbs(Get(DictGetOr(Get(Get(risk_assessment, "var_analysis", <<>>),
                                       "var_estimates", <<>>), "95%", <<>>),
                         "var_percentage", 0))
      resilience_score == Get(Get(risk_assessment, "stress_test_results", <<>>),
                              "portfolio_resilience_score", 50 * FP)
      asset_risks == Get(risk_assessment, "asset_risks", <<>>)
      high_risk_assets == SelectSeq(asset_risks,
          LAMBDA e : Get(e.value, "risk_level", "None") \in {"high", "very_high"})
  IN IF risk_level \in {"high", "very_high"} THEN <<RecReduce, RecStopLoss>>
     ELSE IF FLess(1 * FP, volatility) THEN <<RecVolatility>>
     ELSE IF FLess(7000, avg_correlation) THEN <<RecCorrelation>>
     ELSE IF FLess(10 * FP, var_95) THEN <<RecVar>>
     ELSE IF FLess(resilience_score, 30 * FP) THEN <<RecResilience>>
     ELSE IF high_risk_assets # <<>> THEN <<RecHighRiskAssets>>
     ELSE <<>>

\* lines 462-498: the messages of the rules that fire, in rule order
fired_recommendations(risk_assessment) ==
  LET risk_level == Get(risk_assessment, "risk_level", "medium")
      volatility == Get(Get(risk_assessment, "risk_metrics", <<>>), "annual_volatility", 0)
      avg_correlation == Get(Get(risk_assessment, "correlation_analysis", <<>>),
                             "average_correlation", 0)
      var_95 == FAbs(Get(DictGetOr(Get(Get(risk_assessment, "var_analysis", <<>>),
                                       "var_estimates", <<>>), "95%", <<>>),
                         "var_percentage", 0))
      resilience_score == Get(Get(risk_assessment, "stress_test_results", <<>>),
                              "portfolio_resilience_score", 50 * FP)
      asset_risks == Get(risk_assessment, "asset_risks", <<>>)
      high_risk_assets == SelectSeq(asset_risks,
          LAMBDA e : Get(e.value, "risk_level", "None") \in {"high", "very_high"})
  IN    (IF risk_level \in {"high", "very_high"} THEN <<RecReduce, RecStopLoss>> ELSE <<>>)
        \o (IF FLess(1 * FP, volatility) THEN <<RecVolatility>> ELSE <<>>)
        \o (IF FLess(7000, avg_correlation) THEN <<RecCorrelation>> ELSE <<>>)
        \o (IF FLess(10 * FP, var_95) THEN <<RecVar>> ELSE <<>>)
        \o (IF FLess(resilience_score, 30 * FP) THEN <<RecResilience>> ELSE <<>>)
        \o (IF high_risk_assets # <<>> THEN <<RecHighRiskAssets>> ELSE <<>>)

\* (variant: line 500 without its fallback message)
generate_risk_recommendations_bare(risk_assessment) ==
  fired_recommendations(risk_assessment)

\* line 500
generate_risk_recommendations(risk_assessment) ==
  LET recommendations == fired_recommendations(risk_assessment)
  IN IF recommendations # <<>> THEN recommendations ELSE <<RecAcceptable>>

\* ------------------------------------------------------- assess_asset_risk
\* the methods the class defines (every def of the source file)
ClassMethods ==
  {"__init__", "assess_portfolio_risk", "assess_asset_risk", "calculate_var",
   "perform_stress_test", "_prepare_portfolio_data", "_assess_asset_risk",
   "_calculate_portfolio_risk_metrics", "_analyze_portfolio_correlations",
   "_calculate_var", "_perform_stress_tests", "_calculate_overall_risk_score",
   "_categorize_risk_level", "_generate_risk_recommendations", "_calculate_returns",
   "_calculate_volatility", "_calculate_max_drawdown", "_calculate_beta",
   "_calculate_sharpe_ratio", "_calculate_sortino_ratio", "_calculate_portfolio_returns",
   "_calculate_portfolio_max_drawdown", "_calculate_portfolio_volatility",
   "_categorize_diversification", "_find_highly_correlated_pairs",
   "_get_default_stress_scenarios", "_apply_stress_scenario"}

\* the methods assess_asset_risk calls on self, in call order
AssetRiskCalls ==
  <<"_calculate_price_metrics", "_analyze_volatility", "_assess_liquidity_risk",
    "_assess_technical_risk", "_assess_market_risk", "_calculate_asset_risk_score",
    "_categorize_risk_level">>

\* Looking up a method the class does not define raises AttributeError.
assess_asset_risk_try(symbol, pd) ==
  IF \E i \in 1..Len(AssetRiskCalls) : AssetRiskCalls[i] \notin ClassMethods
  THEN Raise("AttributeError")
  ELSE Ok([symbol |-> symbol,
           price_metrics |-> <<>>,
           volatility_analysis |-> <<>>,
           liquidity_risk |-> <<>>,
           technical_risk |-> <<>>,
           fundamental_risk |-> <<>>,
           market_risk |-> <<>>,
           overall_risk_score |-> 0,
           risk_level |-> categorize_risk_level(0)])

assess_asset_risk(symbol, pd) == TryExcept(assess_asset_risk_try(symbol, pd))


\* ================================================================ inputs
\* Lengths of the price series the model feeds the agent.
LongSeries == 31
MidSeries == 11
ShortSeries == 3

\* Two price histories with positive prices and day-to-day moves below 3%.
WaveA(n) == [i \in 1..n |-> [price |-> 1000 + (((i * 7) % 11) * 3)]]

WaveB(n) == [i \in 1..n |-> [price |-> 2000 + (((i * 5) % 13) * 4)]]

\* a history whose second record has no 'price' key
BadSeries == <<[price |-> 1000], [timestamp |-> 2], [price |-> 1010]>>

\* The per-symbol price data a caller may pass.
SymbolData ==
  { [current_price |-> 100, prices |-> WaveA(LongSeries)],
    [current_price |-> 200, prices |-> WaveB(LongSeries)],
    [current_price |-> 100, prices |-> WaveB(MidSeries)],
    [current_price |-> 100, prices |-> WaveA(ShortSeries)],
    [prices |-> WaveA(LongSeries)],
    [current_price |-> 0],
    [current_price |-> 100, prices |-> BadSeries] }

PriceDatas == UNION {[S -> SymbolData] : S \in SUBSET Symbols}

\* the holdings a caller may list; the last one has no 'quantity' key
Holdings ==
  { [symbol |-> "BTC", quantity |-> 1],
    [symbol |-> "BTC", quantity |-> 2],
    [symbol |-> "ETH", quantity |-> 2],
    [symbol |-> "ETH"] }

RECURSIVE SeqsUpTo(_, _)
SeqsUpTo(S, n) ==
  IF n = 0 THEN {<<>>}
  ELSE LET shorter == SeqsUpTo(S, n - 1)
       IN shorter \cup {Append(q, x) : q \in {r \in shorter : Len(r) = n - 1}, x \in S}

HoldingLists == SeqsUpTo(Holdings, MaxHoldings)

\* the Portfolio a caller passes to assess_portfolio_risk
Portfolios == {[id |-> "p1", holdings |-> hs] : hs \in HoldingLists}

\* sum of quantity x current_price over well-formed holdings
HoldingsValue(hs, pd) ==
  SumSeq([i \in 1..Len(hs) |->
            IF "quantity" \in DOMAIN hs[i]
            THEN hs[i].quantity * current_price_of(pd, hs[i].symbol) ELSE 0])

\* the price data perform_stress_test reads: current prices only
QuotePrices(symbol) == IF symbol = "BTC" THEN {100, 0} ELSE {200, 0}

QuoteDatas ==
  UNION {[S -> {[current_price |-> 100], [current_price |-> 200], [current_price |-> 0]}] :
           S \in SUBSET Symbols}

\* the quotes a stress test is called with: each symbol at its price or at 0
StressQuoteDatas ==
  {pd \in QuoteDatas : \A symbol \in DOMAIN pd : pd[symbol].current_price \in QuotePrices(symbol)}

\* the holdings of a portfolio passed to perform_stress_test or
\* calculate_var, the last one without 'quantity'
DirectHoldings ==
  { [symbol |-> "BTC", quantity |-> 1],
    [symbol |-> "ETH", quantity |-> 2],
    [symbol |-> "ETH"] }

DirectHoldingLists == SeqsUpTo(DirectHoldings, MaxHoldings)

\* the portfolios a caller passes to perform_stress_test: holdings with the
\* starting value left out, given as 0, or given as the holdings' value
StressPortfolios(pd) ==
  UNION {{[holdings |-> hs],
          [holdings |-> hs, total_value |-> 0],
          [holdings |-> hs, total_value |-> HoldingsValue(hs, pd)]} : hs \in DirectHoldingLists}

ScenarioCatalog ==
  { [name |-> "exact_and_all", description |-> "d",
     shocks |-> [k \in {"BTC", "all"} |-> IF k = "BTC" THEN -6000 ELSE -5000]],
    [name |-> "exact_and_others", description |-> "d",
     shocks |-> [k \in {"BTC", "others"} |-> IF k = "BTC" THEN -6000 ELSE -3000]],
    [name |-> "no_shock", shocks |-> <<>>],
    [name |-> "eth_rally", description |-> "d", shocks |-> [k \in {"ETH"} |-> 5000]],
    [name |-> "zero_shock", description |-> "d", shocks |-> [k \in {"BTC", "others"} |-> 0]] }

ScenarioArgs ==
  {NoneScenarios} \cup {ListScenarios(l) : l \in SeqsUpTo(ScenarioCatalog, MaxScenarios)}

ConfidenceLists == {DefaultConfidenceLevels, <<9900>>, <<9000, 9500>>, <<9500, 15000>>}

\* the portfolios a caller passes to calculate_var: the Portfolio of
\* assess_portfolio_risk, or the prepared form with assets and weights
VarPortfolios(pd) ==
  LET direct == {[id |-> "p1", holdings |-> hs] : hs \in DirectHoldingLists}
  IN direct \cup
     {prepare_portfolio_data(p, pd).val : p \in {q \in direct : ~prepare_portfolio_data(q, pd).raised}}

\* sub-results handed directly to _calculate_overall_risk_score
ScoreMetrics ==
  {[error |-> "No return data available"]} \cup
  {[annual_volatility |-> v] : v \in {0, 5000, 10000, 50000, NaN}}

ScoreVar ==
  {[error |-> "Insufficient data for VaR calculation"]} \cup
  {[var_estimates |-> <<[key |-> "95%", value |-> [var_percentage |-> x]]>>] :
     x \in {0, -5 * FP, 20 * FP, -150 * FP, NaN}}

ScoreCorrelation ==
  {[error |-> "Insufficient data for correlation analysis"],
   [message |-> "Need at least 2 assets for correlation analysis"]} \cup
  {[average_correlation |-> c] : c \in {-FP, 0, 5000, FP, NaN}}

ScoreStress ==
  {[error |-> "ZeroDivisionError"]} \cup
  {[portfolio_resilience_score |-> r] : r \in {-50 * FP, 0, 30 * FP, 100 * FP, 150 * FP}}

\* ================================================================= state
VARIABLES
  pc,               \* "idle", a step of assess_portfolio_risk, or "done"
  op,               \* the entry point being executed
  portfolio,        \* the arguments of the call
  price_data,
  scenarios,
  confidence_levels,
  portfolio_data,   \* locals of assess_portfolio_risk
  asset_i,
  risk_assessment,
  result,           \* the value returned to the caller
  agent,            \* the fields of the agent
  received          \* the assessments the caller has received so far

vars == <<pc, op, portfolio, price_data, scenarios, confidence_levels,
          portfolio_data, asset_i, risk_assessment, result, agent, received>>

\* lines 25-44: the fields __init__ gives the agent
Thresholds ==
  [very_low |-> 2000, low |-> 4000, medium |-> 6000, high |-> 8000, very_high |-> FP]

AgentFields ==
  [config |-> <<>>,
   risk_free_rate |-> 200,
   volatility_thresholds |-> Thresholds,
   correlation_thresholds |-> Thresholds]

Init ==
  /\ pc = "idle"
  /\ op = "none"
  /\ portfolio = <<>>
  /\ price_data = <<>>
  /\ scenarios = NoneScenarios
  /\ confidence_levels = <<>>
  /\ portfolio_data = <<>>
  /\ asset_i = 0
  /\ risk_assessment = <<>>
  /\ result = <<>>
  /\ agent = AgentFields
  /\ received = {}

\* ------------------------------------------------- assess_portfolio_risk
\* lines 50-63: the assessment with its empty fields
CallAssessPortfolioRisk ==
  /\ pc = "idle"
  /\ \E p \in Portfolios, pd \in PriceDatas :
       /\ portfolio' = p
       /\ price_data' = pd
       /\ risk_assessment' =
            [portfolio_id |-> Get(p, "id", "unknown"),
             total_value_usd |-> 0,
             risk_metrics |-> <<>>,
             asset_risks |-> <<>>,
             correlation_analysis |-> <<>>,
             var_analysis |-> <<>>,
             stress_test_results |-> <<>>,
             risk_score |-> 0,
             risk_level |-> "unknown",
             recommendations |-> <<>>]
  /\ op' = "assess_portfolio_risk"
  /\ pc' = "prepare"
  /\ UNCHANGED <<scenarios, confidence_levels, portfolio_data, asset_i, result>>
  /\ UNCHANGED <<agent, received>>

\* the except clause of lines 96-98
Except(e) ==
  /\ result' = [error |-> e]
  /\ pc' = "done"

\* (variant: the weights are written into the holdings passed in)
PreparePortfolio_inplace ==
  /\ pc = "prepare"
  /\ LET prepared == prepare_portfolio_data(portfolio, price_data) IN
       IF prepared.raised
       THEN Except(prepared.exc) /\ UNCHANGED <<portfolio_data, risk_assessment, asset_i, portfolio>>
       ELSE /\ portfolio_data' = prepared.val
            /\ risk_assessment' = [risk_assessment EXCEPT !.total_value_usd = prepared.val.total_value]
            /\ asset_i' = 1
            /\ pc' = "assets"
            /\ portfolio' = [portfolio EXCEPT !.holdings = prepared.val.assets]
            /\ UNCHANGED result
  /\ UNCHANGED <<op, price_data, scenarios, confidence_levels>>
  /\ UNCHANGED <<agent, received>>

\* lines 66-67
PreparePortfolio ==
  /\ pc = "prepare"
  /\ LET prepared == prepare_portfolio_data(portfolio, price_data) IN
       IF prepared.raised
       THEN Except(prepared.exc) /\ UNCHANGED <<portfolio_data, risk_assessment, asset_i>>
       ELSE /\ portfolio_data' = prepared.val
            /\ risk_assessment' = [risk_assessment EXCEPT !.total_value_usd = prepared.val.total_value]
            /\ asset_i' = 1
            /\ pc' = "assets"
            /\ UNCHANGED result
  /\ UNCHANGED <<op, portfolio, price_data, scenarios, confidence_levels>>
  /\ UNCHANGED <<agent, received>>

\* lines 70-72: one iteration of the loop over the assets
AssessAsset ==
  /\ pc = "assets"
  /\ asset_i <= Len(portfolio_data.assets)
  /\ LET asset == portfolio_data.assets[asset_i]
         asset_risk == assess_asset_risk_of(asset, Get(price_data, asset.symbol, <<>>))
     IN IF asset_risk.raised
        THEN Except(asset_risk.exc) /\ UNCHANGED <<risk_assessment, asset_i>>
        ELSE /\ risk_assessment' = [risk_assessment EXCEPT
                   !.asset_risks = DictSet(@, asset.symbol, asset_risk.val)]
             /\ asset_i' = asset_i + 1
             /\ UNCHANGED <<pc, result>>
  /\ UNCHANGED <<op, portfolio, price_data, scenarios, confidence_levels, portfolio_data>>
  /\ UNCHANGED <<agent, received>>

\* line 75
RiskMetrics ==
  /\ pc = "assets"
  /\ asset_i > Len(portfolio_data.assets)
  /\ LET stage == calculate_portfolio_risk_metrics(portfolio_data, price_data) IN
       IF stage.raised
       THEN Except(stage.exc) /\ UNCHANGED risk_assessment
       ELSE /\ risk_assessment' = [risk_assessment EXCEPT !.risk_metrics = stage.val]
            /\ pc' = "correlations"
            /\ UNCHANGED result
  /\ UNCHANGED <<op, portfolio, price_data, scenarios, confidence_levels,
                 portfolio_data, asset_i>>
  /\ UNCHANGED <<agent, received>>

\* line 78
Correlations ==
  /\ pc = "correlations"
  /\ LET stage == analyze_portfolio_correlations(portfolio_data, price_data) IN
       IF stage.raised
       THEN Except(stage.exc) /\ UNCHANGED risk_assessment
       ELSE /\ risk_assessment' = [risk_assessment EXCEPT !.correlation_analysis = stage.val]
            /\ pc' = "var"
            /\ UNCHANGED result
  /\ UNCHANGED <<op, portfolio, price_data, scenarios, confidence_levels,
                 portfolio_data, asset_i>>
  /\ UNCHANGED <<agent, received>>

\* line 81, _calculate_var
VarAnalysis ==
  /\ pc = "var"
  /\ LET stage == calculate_var(portfolio_data, price_data, DefaultConfidenceLevels) IN
       IF stage.raised
       THEN Except(stage.exc) /\ UNCHANGED risk_assessment
       ELSE /\ risk_assessment' = [risk_assessment EXCEPT !.var_analysis = stage.val]
            /\ pc' = "stress"
            /\ UNCHANGED result
  /\ UNCHANGED <<op, portfolio, price_data, scenarios, confidence_levels,
                 portfolio_data, asset_i>>
  /\ UNCHANGED <<agent, received>>

\* line 84, _perform_stress_tests
StressTests ==
  /\ pc = "stress"
  /\ LET stage == perform_stress_test(portfolio_data, price_data, NoneScenarios) IN
       IF stage.raised
       THEN Except(stage.exc) /\ UNCHANGED risk_assessment
       ELSE /\ risk_assessment' = [risk_assessment EXCEPT !.stress_test_results = stage.val]
            /\ pc' = "score"
            /\ UNCHANGED result
  /\ UNCHANGED <<op, portfolio, price_data, scenarios, confidence_levels,
                 portfolio_data, asset_i>>
  /\ UNCHANGED <<agent, received>>

\* lines 87-89
OverallScore ==
  /\ pc = "score"
  /\ LET risk_score == calculate_overall_risk_score(risk_assessment) IN
       risk_assessment' = [risk_assessment EXCEPT
         !.risk_score = risk_score,
         !.risk_level = categorize_risk_level(risk_score)]
  /\ pc' = "recommend"
  /\ UNCHANGED <<op, portfolio, price_data, scenarios, confidence_levels,
                 portfolio_data, asset_i, result>>
  /\ UNCHANGED <<agent, received>>

\* lines 92-94
Recommend ==
  /\ pc = "recommend"
  /\ LET finished == [risk_assessment EXCEPT
           !.recommendations = generate_risk_recommendations(risk_assessment)]
     IN /\ risk_assessment' = finished
        /\ result' = finished
  /\ pc' = "done"
  /\ UNCHANGED <<op, portfolio, price_data, scenarios, confidence_levels,
                 portfolio_data, asset_i>>
  /\ UNCHANGED <<agent, received>>

\* ---------------------------------------- the other public entry points
\* what the caller of a public method gets: its return value, or the
\* exception it let through
Returned(r) == IF r.raised THEN [uncaught |-> r.exc] ELSE r.val

CallAssessAssetRisk ==
  /\ pc = "idle"
  /\ \E symbol \in Symbols, pd \in SymbolData :
       /\ portfolio' = [symbol |-> symbol]
       /\ price_data' = pd
       /\ result' = Returned(assess_asset_risk(symbol, pd))
  /\ op' = "assess_asset_risk"
  /\ pc' = "done"
  /\ UNCHANGED <<scenarios, confidence_levels, portfolio_data, asset_i, risk_assessment>>
  /\ UNCHANGED <<agent, received>>

CallCalculateVar ==
  /\ pc = "idle"
  /\ \E pd \in PriceDatas :
       \E p \in VarPortfolios(pd), levels \in ConfidenceLists :
         /\ portfolio' = p
         /\ price_data' = pd
         /\ confidence_levels' = levels
         /\ result' = Returned(calculate_var(p, pd, levels))
  /\ op' = "calculate_var"
  /\ pc' = "done"
  /\ UNCHANGED <<scenarios, portfolio_data, asset_i, risk_assessment>>
  /\ UNCHANGED <<agent, received>>

CallPerformStressTest ==
  /\ pc = "idle"
  /\ \E pd \in StressQuoteDatas :
       \E p \in StressPortfolios(pd), sc \in ScenarioArgs :
         /\ portfolio' = p
         /\ price_data' = pd
         /\ scenarios' = sc
         /\ result' = Returned(perform_stress_test(p, pd, sc))
  /\ op' = "perform_stress_test"
  /\ pc' = "done"
  /\ UNCHANGED <<confidence_levels, portfolio_data, asset_i, risk_assessment>>
  /\ UNCHANGED <<agent, received>>

\* the caller takes the result; the agent keeps nothing of the call
Return ==
  /\ pc = "done"
  /\ pc' = "idle"
  /\ op' = "none"
  /\ portfolio' = <<>>
  /\ price_data' = <<>>
  /\ scenarios' = NoneScenarios
  /\ confidence_levels' = <<>>
  /\ portfolio_data' = <<>>
  /\ asset_i' = 0
  /\ risk_assessment' = <<>>
  /\ result' = <<>>
  /\ UNCHANGED <<agent, received>>

Next ==
  \/ CallAssessPortfolioRisk
  \/ PreparePortfolio
  \/ AssessAsset
  \/ RiskMetrics
  \/ Correlations
  \/ VarAnalysis
  \/ StressTests
  \/ OverallScore
  \/ Recommend
  \/ CallAssessAssetRisk
  \/ CallCalculateVar
  \/ CallPerformStressTest
  \/ Return

Spec == Init /\ [][Next]_vars

\* ------------------------------ _calculate_overall_risk_score on its own
\* The scorer and the categorizer applied to an assessment whose four
\* sub-results are drawn from the Score* sets.
CallOverallRiskScore ==
  /\ pc = "idle"
  /\ \E rm \in ScoreMetrics, va \in ScoreVar, ca \in ScoreCorrelation, st \in ScoreStress :
       LET assessment == [risk_metrics |-> rm, var_analysis |-> va,
                          correlation_analysis |-> ca, stress_test_results |-> st]
           risk_score == calculate_overall_risk_score(assessment)
       IN /\ risk_assessment' = assessment
          /\ result' = [risk_score |-> risk_score,
                        risk_level |-> categorize_risk_level(risk_score)]
  /\ op' = "calculate_overall_risk_score"
  /\ pc' = "done"
  /\ UNCHANGED <<portfolio, price_data, scenarios, confidence_levels, portfolio_data, asset_i>>
  /\ UNCHANGED <<agent, received>>

NextScore ==
  \/ CallOverallRiskScore
  \/ Return

SpecScore == Init /\ [][NextScore]_vars

\* ------------------------------------ calculate_var on a family of histories
\* Price histories 1000 + ((i * a) mod m) * 5, for steps a up to MaxStep.
MaxStep == 2

Moduli == {7, 11, 13}

PriceWave(a, m, n) == [i \in 1..n |-> [price |-> 1000 + (((i * a) % m) * 5)]]

\* numbers of price points: one return short of the minimum, exactly the
\* minimum, and a longer history
VarSeriesLengths == {MinVarObservations, MinVarObservations + 1, LongSeries + MidSeries}

VarHistories ==
  {[current_price |-> 100, prices |-> PriceWave(a, m, n)] :
     a \in 1..MaxStep, m \in Moduli, n \in VarSeriesLengths}

VarPriceDatas == [{"BTC"} -> VarHistories] \cup [Symbols -> VarHistories]

VarHoldingLists ==
  { <<[symbol |-> "BTC", quantity |-> 1]>>,
    <<[symbol |-> "BTC", quantity |-> 1], [symbol |-> "ETH", quantity |-> 2]>> }

\* the Portfolio of the data model and its prepared form
VarCallPortfolios(pd) ==
  UNION {{[id |-> "p1", holdings |-> hs],
          prepare_portfolio_data([id |-> "p1", holdings |-> hs], pd).val} :
           hs \in VarHoldingLists}

CallVarOnHistories ==
  /\ pc = "idle"
  /\ \E pd \in VarPriceDatas :
       \E p \in VarCallPortfolios(pd), levels \in ConfidenceLists :
         /\ portfolio' = p
         /\ price_data' = pd
         /\ confidence_levels' = levels
         /\ result' = Returned(calculate_var(p, pd, levels))
  /\ op' = "calculate_var"
  /\ pc' = "done"
  /\ UNCHANGED <<scenarios, portfolio_data, asset_i, risk_assessment>>
  /\ UNCHANGED <<agent, received>>

NextVar ==
  \/ CallVarOnHistories
  \/ Return

SpecVar == Init /\ [][NextVar]_vars

\* --------------------------- _analyze_portfolio_correlations on its own
\* Portfolios of up to three symbols; a symbol's history is long, of
\* medium length, a single price point, or missing.
CorrSymbols == {"BTC", "ETH", "SOL"}

CorrHistories ==
  { [current_price |-> 100, prices |-> WaveA(LongSeries)],
    [current_price |-> 200, prices |-> WaveB(LongSeries)],
    [current_price |-> 100, prices |-> WaveB(MidSeries)],
    [current_price |-> 100, prices |-> WaveA(1)],
    [current_price |-> 100] }

CorrPriceDatas == UNION {[S -> CorrHistories] : S \in SUBSET CorrSymbols}

\* one holding per symbol, in any order
CorrHoldingLists ==
  {hs \in SeqsUpTo({[symbol |-> sym, quantity |-> 1] : sym \in CorrSymbols},
                   Cardinality(CorrSymbols)) :
     \A i, j \in 1..Len(hs) : hs[i] = hs[j] => i = j}

CallAnalyzeCorrelations ==
  /\ pc = "idle"
  /\ \E hs \in CorrHoldingLists, pd \in CorrPriceDatas :
       LET p == [id |-> "p1", holdings |-> hs]
           prepared == prepare_portfolio_data(p, pd).val
       IN /\ portfolio' = p
          /\ price_data' = pd
          /\ portfolio_data' = prepared
          /\ result' = Returned(analyze_portfolio_correlations(prepared, pd))
  /\ op' = "analyze_portfolio_correlations"
  /\ pc' = "done"
  /\ UNCHANGED <<scenarios, confidence_levels, asset_i, risk_assessment>>
  /\ UNCHANGED <<agent, received>>

NextCorrelations ==
  \/ CallAnalyzeCorrelations
  \/ Return

SpecCorrelations == Init /\ [][NextCorrelations]_vars

\* -------------------------------- _calculate_portfolio_returns on its own
CallCalculatePortfolioReturns ==
  /\ pc = "idle"
  /\ \E hs \in CorrHoldingLists, pd \in CorrPriceDatas :
       LET p == [id |-> "p1", holdings |-> hs]
           prepared == prepare_portfolio_data(p, pd).val
           returns == calculate_portfolio_returns(prepared, pd)
       IN /\ portfolio' = p
          /\ price_data' = pd
          /\ portfolio_data' = prepared
          /\ result' = IF returns.raised THEN [uncaught |-> returns.exc]
                       ELSE [portfolio_returns |-> returns.val]
  /\ op' = "calculate_portfolio_returns"
  /\ pc' = "done"
  /\ UNCHANGED <<scenarios, confidence_levels, asset_i, risk_assessment>>
  /\ UNCHANGED <<agent, received>>

NextPortfolioReturns ==
  \/ CallCalculatePortfolioReturns
  \/ Return

SpecPortfolioReturns == Init /\ [][NextPortfolioReturns]_vars

\* ------------------------------------------ _calculate_returns on its own
\* Price records a caller may pass: positive, zero and negative prices, and
\* a record without a 'price' key; histories of up to MaxPrices records.
MaxPrices == 3

PriceRecords ==
  {[price |-> x] : x \in {100, 110, 99, 0, -50}} \cup {[timestamp |-> 1]}

CallCalculateReturns ==
  /\ pc = "idle"
  /\ \E prices \in SeqsUpTo(PriceRecords, MaxPrices) :
       LET pd == [prices |-> prices]
           returns == calculate_returns(pd)
       IN /\ price_data' = pd
          /\ result' = IF returns.raised THEN [uncaught |-> returns.exc]
                       ELSE [returns |-> returns.val]
  /\ op' = "calculate_returns"
  /\ pc' = "done"
  /\ UNCHANGED <<portfolio, scenarios, confidence_levels, portfolio_data, asset_i,
                 risk_assessment>>
  /\ UNCHANGED <<agent, received>>

NextReturns ==
  \/ CallCalculateReturns
  \/ Return

SpecReturns == Init /\ [][NextReturns]_vars

\* ------------------------------------- assess_portfolio_risk called again
\* A caller that keeps the assessments it receives and calls again with
\* arguments it has used before, with other calls in between.
RepeatPortfolios ==
  {[id |-> "p1", holdings |-> hs] :
     hs \in {<<[symbol |-> "BTC", quantity |-> 1], [symbol |-> "ETH", quantity |-> 2]>>,
             <<[symbol |-> "BTC", quantity |-> 2]>>}}

RepeatPriceDatas ==
  {[s \in {"BTC", "ETH"} |->
      IF s = "BTC" THEN [current_price |-> 100, prices |-> WaveA(LongSeries)]
      ELSE [current_price |-> 200, prices |-> WaveB(LongSeries)]],
   [s \in {"BTC"} |-> [current_price |-> 100, prices |-> WaveB(MidSeries)]]}

CallAssessPortfolioRiskAgain ==
  /\ pc = "idle"
  /\ \E p \in RepeatPortfolios, pd \in RepeatPriceDatas :
       /\ portfolio' = p
       /\ price_data' = pd
       /\ risk_assessment' =
            [portfolio_id |-> Get(p, "id", "unknown"),
             total_value_usd |-> 0,
             risk_metrics |-> <<>>,
             asset_risks |-> <<>>,
             correlation_analysis |-> <<>>,
             var_analysis |-> <<>>,
             stress_test_results |-> <<>>,
             risk_score |-> 0,
             risk_level |-> "unknown",
             recommendations |-> <<>>]
  /\ op' = "assess_portfolio_risk"
  /\ pc' = "prepare"
  /\ UNCHANGED <<scenarios, confidence_levels, portfolio_data, asset_i, result>>
  /\ UNCHANGED <<agent, received>>

\* calculate_var on the same arguments, between two assessments
CallCalculateVarBetween ==
  /\ pc = "idle"
  /\ \E p \in RepeatPortfolios, pd \in RepeatPriceDatas, levels \in ConfidenceLists :
       /\ portfolio' = p
       /\ price_data' = pd
       /\ confidence_levels' = levels
       /\ result' = Returned(calculate_var(p, pd, levels))
  /\ op' = "calculate_var"
  /\ pc' = "done"
  /\ UNCHANGED <<scenarios, portfolio_data, asset_i, risk_assessment>>
  /\ UNCHANGED <<agent, received>>

\* the caller takes the result and keeps an assessment with its arguments
ReturnReceived ==
  /\ pc = "done"
  /\ received' = IF op = "assess_portfolio_risk"
                 THEN received \cup {[portfolio |-> portfolio, price_data |-> price_data,
                                      result |-> result]}
                 ELSE received
  /\ pc' = "idle"
  /\ op' = "none"
  /\ portfolio' = <<>>
  /\ price_data' = <<>>
  /\ scenarios' = NoneScenarios
  /\ confidence_levels' = <<>>
  /\ portfolio_data' = <<>>
  /\ asset_i' = 0
  /\ risk_assessment' = <<>>
  /\ result' = <<>>
  /\ UNCHANGED agent

NextRepeat ==
  \/ CallAssessPortfolioRiskAgain
  \/ PreparePortfolio
  \/ AssessAsset
  \/ RiskMetrics
  \/ Correlations
  \/ VarAnalysis
  \/ StressTests
  \/ OverallScore
  \/ Recommend
  \/ CallAssessAssetRisk
  \/ CallCalculateVarBetween
  \/ ReturnReceived

SpecRepeat == Init /\ [][NextRepeat]_vars

\* --------------------- calculate_var and perform_stress_test, item by item
\* The confidence levels a caller requests: the default pair, one level,
\* three levels, a level given twice, and two levels 0.1 point apart.
LevelLists ==
  {DefaultConfidenceLevels, <<9900>>, <<9000, 9500, 9900>>, <<9500, 9500>>, <<9500, 9510>>}

CallCalculateVarLevels ==
  /\ pc = "idle"
  /\ \E q \in RepeatPortfolios, pd \in RepeatPriceDatas, levels \in LevelLists :
       LET p == prepare_portfolio_data(q, pd).val
       IN /\ portfolio' = p
          /\ price_data' = pd
          /\ confidence_levels' = levels
          /\ result' = Returned(calculate_var(p, pd, levels))
  /\ op' = "calculate_var"
  /\ pc' = "done"
  /\ UNCHANGED <<scenarios, portfolio_data, asset_i, risk_assessment>>
  /\ UNCHANGED <<agent, received>>

CallPerformStressTestList ==
  /\ pc = "idle"
  /\ \E q \in RepeatPortfolios, pd \in RepeatPriceDatas, sc \in ScenarioArgs :
       LET p == [holdings |-> q.holdings, total_value |-> HoldingsValue(q.holdings, pd)]
       IN /\ portfolio' = p
          /\ price_data' = pd
          /\ scenarios' = sc
          /\ result' = Returned(perform_stress_test(p, pd, sc))
  /\ op' = "perform_stress_test"
  /\ pc' = "done"
  /\ UNCHANGED <<confidence_levels, portfolio_data, asset_i, risk_assessment>>
  /\ UNCHANGED <<agent, received>>

NextEntries ==
  \/ CallCalculateVarLevels
  \/ CallPerformStressTestList
  \/ Return

SpecEntries == Init /\ [][NextEntries]_vars

\* ------------------------------------------- _assess_asset_risk on its own
\* Histories of up to MaxPoints positive prices, the long histories, a
\* history with a malformed record, and price data without 'prices'.
MaxPoints == 3

PointPrices == {100, 50, 60, 120}

MetricHistories ==
  {[prices |-> prices] :
     prices \in SeqsUpTo({[price |-> x] : x \in PointPrices}, MaxPoints)}
  \cup {[prices |-> WaveA(LongSeries)], [prices |-> WaveB(LongSeries)],
        [prices |-> WaveB(MidSeries)], [prices |-> BadSeries],
        [current_price |-> 100]}

MetricAssets == {[symbol |-> "BTC", weight |-> w] : w \in {0, 2500, FP}}

CallAssessAssetRiskOf ==
  /\ pc = "idle"
  /\ \E asset \in MetricAssets, pd \in MetricHistories :
       /\ portfolio' = asset
       /\ price_data' = pd
       /\ result' = Returned(assess_asset_risk_of(asset, pd))
  /\ op' = "_assess_asset_risk"
  /\ pc' = "done"
  /\ UNCHANGED <<scenarios, confidence_levels, portfolio_data, asset_i, risk_assessment>>
  /\ UNCHANGED <<agent, received>>

NextMetrics ==
  \/ CallAssessAssetRiskOf
  \/ Return

SpecMetrics == Init /\ [][NextMetrics]_vars

\* ------------------------------ _generate_risk_recommendations on its own
\* the risk levels and per-asset risks an assessment may carry
RecLevels == {"very_low", "medium", "high"}

RecAssetRisks ==
  { <<>>,
    <<[key |-> "BTC", value |-> [risk_level |-> "low"]]>>,
    <<[key |-> "BTC", value |-> [risk_level |-> "low"]],
      [key |-> "ETH", value |-> [risk_level |-> "very_high"]]>> }

\* The recommender applied to an assessment whose sub-results are drawn
\* from the Score* sets.
CallGenerateRecommendations ==
  /\ pc = "idle"
  /\ \E rm \in ScoreMetrics, va \in ScoreVar, ca \in ScoreCorrelation, st \in ScoreStress,
        level \in RecLevels, ar \in RecAssetRisks :
       LET assessment == [risk_metrics |-> rm, var_analysis |-> va,
                          correlation_analysis |-> ca, stress_test_results |-> st,
                          risk_level |-> level, asset_risks |-> ar]
       IN /\ risk_assessment' = assessment
          /\ result' = [recommendations |-> generate_risk_recommendations(assessment)]
  /\ op' = "generate_risk_recommendations"
  /\ pc' = "done"
  /\ UNCHANGED <<portfolio, price_data, scenarios, confidence_levels, portfolio_data, asset_i>>
  /\ UNCHANGED <<agent, received>>

NextRecommend ==
  \/ CallGenerateRecommendations
  \/ Return

SpecRecommend == Init /\ [][NextRecommend]_vars

\* ================================================================ claims
Done(entry_point) == pc = "done" /\ op = entry_point

IsError(d) == "error" \in DOMAIN d

WellFormed(hs) ==
  \A i \in 1..Len(hs) : "symbol" \in DOMAIN hs[i] /\ "quantity" \in DOMAIN hs[i]

\* the scenarios perform_stress_test iterates over
ScenarioList == IF scenarios.is_none THEN get_default_stress_scenarios ELSE scenarios.list

\* the scenario whose entry a result key holds: the last one of that name
LastWithName(list, name) ==
  list[CHOOSE i \in 1..Len(list) :
         list[i].name = name /\ \A j \in (i + 1)..Len(list) : list[j].name # name]

\* the precedence the specification states
StatedShock(symbol, shocks) ==
  IF symbol \in DOMAIN shocks THEN shocks[symbol]
  ELSE IF "all" \in DOMAIN shocks THEN shocks["all"]
  ELSE IF "others" \in DOMAIN shocks THEN shocks["others"]
  ELSE 0

\* C1: every shock a stress test applies to a holding is the exact-symbol
\* shock if the mapping has one, else 'all', else 'others', else 0.
C1_ShockPrecedence ==
  (Done("perform_stress_test") /\ ~IsError(result)) =>
    \A i \in 1..Len(result.scenarios) :
      LET entry == result.scenarios[i]
          shocks == LastWithName(ScenarioList, entry.key).shocks
          impacts == entry.value.asset_impacts
      IN \A k \in 1..Len(impacts) :
           impacts[k].value.shock_applied = StatedShock(impacts[k].key, shocks)

\* sum over the holdings of quantity x current_price x (1 + shock)
ShockedValue(hs, pd, shocks) ==
  SumSeq([i \in 1..Len(hs) |->
            hs[i].quantity *
              Div(current_price_of(pd, hs[i].symbol) * (FP + resolve_shock(hs[i].symbol, shocks)), FP)])

\* C2: in an assessment every default scenario's portfolio_value_after is
\* the shocked value of the portfolio's holdings, and its
\* portfolio_value_before is total_value_usd.
C2_StressOnHoldings ==
  (Done("assess_portfolio_risk") /\ ~IsError(result)
     /\ ~IsError(result.stress_test_results)) =>
    \A i \in 1..Len(result.stress_test_results.scenarios) :
      LET entry == result.stress_test_results.scenarios[i]
          shocks == LastWithName(get_default_stress_scenarios, entry.key).shocks
      IN /\ entry.value.portfolio_value_before = result.total_value_usd
         /\ entry.value.portfolio_value_after = ShockedValue(portfolio.holdings, price_data, shocks)

\* C3: a stress test on a portfolio whose starting value is 0 returns a
\* result for every scenario, each with percentage_loss 0, not an error.
C3_ZeroValueStress ==
  (Done("perform_stress_test") /\ Get(portfolio, "total_value", 0) = 0
     /\ WellFormed(portfolio.holdings) /\ ScenarioList # <<>>) =>
    /\ ~IsError(result)
    /\ \A i \in 1..Len(ScenarioList) : ScenarioList[i].name \in DictKeys(result.scenarios)
    /\ \A i \in 1..Len(result.scenarios) : result.scenarios[i].value.percentage_loss = 0

ValidSeries(pd) ==
  /\ "prices" \in DOMAIN pd
  /\ Len(pd.prices) >= 2
  /\ ~HasBadPrice(pd.prices)

\* C4: assess_asset_risk on a valid price series returns a risk profile
\* with a score and a level, not an error.
C4_AssetRiskProfile ==
  (Done("assess_asset_risk") /\ ValidSeries(price_data)) =>
    /\ ~IsError(result)
    /\ {"overall_risk_score", "risk_level"} \subseteq DOMAIN result

\* number of returns the price data of a symbol yields
ReturnCount(pd, symbol) ==
  LET prices == Get(Get(pd, symbol, <<>>), "prices", <<>>)
  IN IF Len(prices) < 2 THEN 0 ELSE Len(prices) - 1

\* C5: calculate_var on the Portfolio shape of assess_portfolio_risk, with
\* 30 or more returns for every holding, returns an estimate per level.
C5_StandaloneVar ==
  (Done("calculate_var") /\ "holdings" \in DOMAIN portfolio
     /\ portfolio.holdings # <<>> /\ WellFormed(portfolio.holdings)
     /\ \A i \in 1..Len(portfolio.holdings) :
          /\ ReturnCount(price_data, portfolio.holdings[i].symbol) >= 30
          /\ ValidSeries(price_data[portfolio.holdings[i].symbol])) =>
    /\ ~IsError(result)
    /\ \A i \in 1..Len(confidence_levels) :
         ConfidenceKey(confidence_levels[i]) \in DictKeys(result.var_estimates)

\* the holdings' symbols that yield at least one return
SymbolsWithReturns(hs, pd) ==
  {hs[i].symbol : i \in {j \in 1..Len(hs) : ReturnCount(pd, hs[j].symbol) > 0}}

FewestReturns(hs, pd) ==
  CHOOSE m \in {ReturnCount(pd, sym) : sym \in SymbolsWithReturns(hs, pd)} :
    \A sym \in SymbolsWithReturns(hs, pd) : m <= ReturnCount(pd, sym)

\* what makes each stage fail, read off the arguments of the call
MetricsFails(hs, pd) == SymbolsWithReturns(hs, pd) = {}

VarFails(hs, pd) == MetricsFails(hs, pd) \/ FewestReturns(hs, pd) < 30

CorrelationFails(hs, pd) ==
  \/ Cardinality(SymbolsWithReturns(hs, pd)) < 2
  \/ FewestReturns(hs, pd) < 10
  \/ Len(hs) # Cardinality(SymbolsWithReturns(hs, pd))

StressFails(hs, pd) == HoldingsValue(hs, pd) = 0

\* the asset loop goes through: no price history it reads is malformed
HistoriesOk(hs, pd) ==
  \A i \in 1..Len(hs) :
    LET prices == Get(Get(pd, hs[i].symbol, <<>>), "prices", <<>>)
    IN Len(prices) < 2 \/ ~HasBadPrice(prices)

\* C6: in an assessment a stage that fails leaves an error marker in its
\* own field only; every stage whose own inputs suffice holds its normal
\* result, and the assessment is returned without a top-level error.
C6_StageIsolation ==
  (Done("assess_portfolio_risk") /\ WellFormed(portfolio.holdings)
     /\ HistoriesOk(portfolio.holdings, price_data)) =>
    LET hs == portfolio.holdings IN
    /\ ~IsError(result)
    /\ IsError(result.risk_metrics) <=> MetricsFails(hs, price_data)
    /\ ~MetricsFails(hs, price_data) => "annual_volatility" \in DOMAIN result.risk_metrics
    /\ IsError(result.var_analysis) <=> VarFails(hs, price_data)
    /\ ~VarFails(hs, price_data) => "var_estimates" \in DOMAIN result.var_analysis
    /\ "message" \in DOMAIN result.correlation_analysis <=> Len(hs) < 2
    /\ IsError(result.correlation_analysis) <=> (Len(hs) >= 2 /\ CorrelationFails(hs, price_data))
    /\ (Len(hs) >= 2 /\ ~CorrelationFails(hs, price_data)) =>
         "average_correlation" \in DOMAIN result.correlation_analysis
    /\ IsError(result.stress_test_results) <=> StressFails(hs, price_data)
    /\ ~StressFails(hs, price_data) => "scenarios" \in DOMAIN result.stress_test_results

\* an assessment whose stress test and correlation analysis both raised
\* while its risk metrics and VaR were computed
C6_Witness ==
  /\ Done("assess_portfolio_risk")
  /\ ~IsError(result)
  /\ Get(result.stress_test_results, "error", "") = "ZeroDivisionError"
  /\ Get(result.correlation_analysis, "error", "") = "IndexError"
  /\ "annual_volatility" \in DOMAIN result.risk_metrics
  /\ "var_estimates" \in DOMAIN result.var_analysis

SubResultFields ==
  {"total_value_usd", "asset_risks", "risk_metrics", "correlation_analysis",
   "var_analysis", "stress_test_results"}

\* C7: an assessment that ends in an unexpected failure carries the error
\* together with every sub-result completed before the failure.
C7_PartialResults ==
  (Done("assess_portfolio_risk") /\ IsError(result)) =>
    \A f \in SubResultFields :
      f \in DOMAIN result /\ result[f] = risk_assessment[f]

\* C8: the overall risk score lies in [0, 100] for every combination of
\* sub-results.
C8_ScoreInRange ==
  (pc = "done" /\ op \in {"calculate_overall_risk_score", "assess_portfolio_risk"}
     /\ "risk_score" \in DOMAIN result) =>
    /\ ~IsNaN(result.risk_score)
    /\ 0 <= result.risk_score
    /\ result.risk_score <= 100 * FP

\* volatility 500%, VaR -150%, correlation 1 and resilience -50 scored 100
C8_Witness ==
  /\ Done("calculate_overall_risk_score")
  /\ Get(risk_assessment.risk_metrics, "annual_volatility", 0) = 50000
  /\ Get(DictGetOr(Get(risk_assessment.var_analysis, "var_estimates", <<>>), "95%", <<>>),
         "var_percentage", 0) = -150 * FP
  /\ Get(risk_assessment.correlation_analysis, "average_correlation", 0) = FP
  /\ Get(risk_assessment.stress_test_results, "portfolio_resilience_score", 0) = -50 * FP
  /\ result.risk_score = 100 * FP

\* the sub-scores of the stages that produced a result, with their weights
StatedSubScores(ra) ==
  (IF "annual_volatility" \in DOMAIN ra.risk_metrics
   THEN <<[score |-> PyMin(100 * FP, FScale(ra.risk_metrics.annual_volatility, 100)),
           weight |-> 30]>> ELSE <<>>)
  \o (IF "var_estimates" \in DOMAIN ra.var_analysis
      THEN <<[score |-> PyMin(100 * FP,
                FAbs(Get(DictGetOr(ra.var_analysis.var_estimates, "95%", <<>>),
                         "var_percentage", 0))),
              weight |-> 25]>> ELSE <<>>)
  \o (IF "average_correlation" \in DOMAIN ra.correlation_analysis
      THEN <<[score |-> FScale(FAbs(ra.correlation_analysis.average_correlation), 100),
              weight |-> 20]>> ELSE <<>>)
  \o (IF "portfolio_resilience_score" \in DOMAIN ra.stress_test_results
      THEN <<[score |-> FSub(100 * FP, ra.stress_test_results.portfolio_resilience_score),
              weight |-> 25]>> ELSE <<>>)

FiniteSubResults(ra) ==
  /\ ~IsNaN(Get(ra.risk_metrics, "annual_volatility", 0))
  /\ ~IsNaN(Get(DictGetOr(Get(ra.var_analysis, "var_estimates", <<>>), "95%", <<>>),
                "var_percentage", 0))
  /\ ~IsNaN(Get(ra.correlation_analysis, "average_correlation", 0))

\* C9: the overall score is the weighted mean of the sub-scores of the
\* stages that produced a result, the weights renormalized over them
\* (stated for finite sub-scores).
C9_Renormalized ==
  (Done("calculate_overall_risk_score") /\ StatedSubScores(risk_assessment) # <<>>
     /\ FiniteSubResults(risk_assessment)) =>
    LET subs == StatedSubScores(risk_assessment)
    IN result.risk_score =
         PyMin(100 * FP, PyMax(0,
           NpAverage([i \in 1..Len(subs) |-> subs[i].score],
                     [i \in 1..Len(subs) |-> subs[i].weight])))

Marker(d) == IsError(d) \/ "message" \in DOMAIN d

\* C10: when none of the four stages produced a result the overall score
\* is 50 and the level 'medium'.
C10_DefaultMedium ==
  (Done("assess_portfolio_risk") /\ ~IsError(result)
     /\ Marker(result.risk_metrics) /\ Marker(result.var_analysis)
     /\ Marker(result.correlation_analysis) /\ Marker(result.stress_test_results)) =>
    /\ result.risk_score = 50 * FP
    /\ result.risk_level = "medium"

\* a rule of the recommender fires on the assessment
RuleFires(ra) ==
  \/ ra.risk_level \in {"high", "very_high"}
  \/ "annual_volatility" \in DOMAIN ra.risk_metrics
       /\ ~IsNaN(ra.risk_metrics.annual_volatility) /\ ra.risk_metrics.annual_volatility > FP
  \/ "average_correlation" \in DOMAIN ra.correlation_analysis
       /\ ~IsNaN(ra.correlation_analysis.average_correlation)
       /\ ra.correlation_analysis.average_correlation > 7000
  \/ "var_estimates" \in DOMAIN ra.var_analysis
       /\ \E i \in 1..Len(ra.var_analysis.var_estimates) :
            LET e == ra.var_analysis.var_estimates[i]
            IN e.key = "95%" /\ ~IsNaN(e.value.var_percentage)
                 /\ Abs(e.value.var_percentage) > 10 * FP
  \/ "portfolio_resilience_score" \in DOMAIN ra.stress_test_results
       /\ ra.stress_test_results.portfolio_resilience_score < 30 * FP
  \/ \E i \in 1..Len(ra.asset_risks) :
       ra.asset_risks[i].value.risk_level \in {"high", "very_high"}

\* C11: the recommendation list is never empty, and when no rule fires it
\* is exactly the single 'within acceptable levels' message.
C11_NeverEmpty ==
  Done("generate_risk_recommendations") =>
    /\ result.recommendations # <<>>
    /\ ~RuleFires(risk_assessment) => result.recommendations = <<RecAcceptable>>

\* every sub-result an error marker, level very_low, no asset risks:
\* no rule fires and the fallback message is returned
C11_Witness ==
  /\ Done("generate_risk_recommendations")
  /\ IsError(risk_assessment.risk_metrics) /\ IsError(risk_assessment.var_analysis)
  /\ IsError(risk_assessment.correlation_analysis)
  /\ IsError(risk_assessment.stress_test_results)
  /\ risk_assessment.asset_risks = <<>>
  /\ risk_assessment.risk_level = "very_low"
  /\ result.recommendations = <<RecAcceptable>>

\* the caller states a positive starting value equal to the holdings' value
ConsistentValue(p, pd) ==
  /\ "total_value" \in DOMAIN p
  /\ p.total_value = HoldingsValue(p.holdings, pd)
  /\ p.total_value > 0

\* sum over the holdings of quantity x current_price x (1 + shock), the
\* shock resolved by the stated precedence
StatedValue(hs, pd, shocks) ==
  SumSeq([i \in 1..Len(hs) |->
            hs[i].quantity *
              Div(current_price_of(pd, hs[i].symbol) * (FP + StatedShock(hs[i].symbol, shocks)), FP)])

\* C12: for a portfolio with holdings and a starting value equal to their
\* value, every scenario reports value_after = sum of quantity x price x
\* (1 + shock), absolute_loss = before - after and percentage_loss =
\* absolute_loss / before x 100.
C12_StressArithmetic ==
  (Done("perform_stress_test") /\ portfolio.holdings # <<>>
     /\ WellFormed(portfolio.holdings) /\ ConsistentValue(portfolio, price_data)
     /\ ScenarioList # <<>>) =>
    /\ ~IsError(result)
    /\ \A i \in 1..Len(ScenarioList) :
         LET scenario == ScenarioList[i]
             entry == DictGet(result.scenarios, scenario.name)
         IN /\ entry.portfolio_value_before = portfolio.total_value
            /\ entry.portfolio_value_after =
                 StatedValue(portfolio.holdings, price_data, scenario.shocks)
            /\ entry.absolute_loss = entry.portfolio_value_before - entry.portfolio_value_after
            /\ entry.percentage_loss =
                 Div(entry.absolute_loss * FP, entry.portfolio_value_before) * 100

\* every shock of the scenario is 0
ZeroShocks(scenario) == \A k \in DOMAIN scenario.shocks : scenario.shocks[k] = 0

\* the starting value the caller states is the value of the holdings
StatedValueMatches(p, pd) == Get(p, "total_value", 0) = HoldingsValue(p.holdings, pd)

\* C13: a scenario in which every shock is 0 leaves the portfolio value
\* unchanged (value_after = value_before, absolute_loss 0), for every
\* portfolio.
C13_ZeroShockUnchanged ==
  (Done("perform_stress_test") /\ WellFormed(portfolio.holdings)
     /\ StatedValueMatches(portfolio, price_data)) =>
    \A i \in 1..Len(ScenarioList) :
      ZeroShocks(ScenarioList[i]) =>
        /\ ~IsError(result)
        /\ LET entry == DictGet(result.scenarios, ScenarioList[i].name)
           IN /\ entry.portfolio_value_after = entry.portfolio_value_before
              /\ entry.absolute_loss = 0

\* the scenarios of the list carry distinct names (results are keyed by name)
DistinctNames(list) ==
  \A i, j \in 1..Len(list) : list[i].name = list[j].name => list[i] = list[j]

\* position in the input list of the first scenario of that name
FirstIndex(list, name) == CHOOSE i \in 1..Len(list) :
  list[i].name = name /\ \A j \in 1..(i - 1) : list[j].name # name

\* C14: the worst case is the scenario with the lowest portfolio_value_after
\* among all scenarios given; among several with the lowest value it is
\* the first in the input order.
C14_WorstCase ==
  (Done("perform_stress_test") /\ ~IsError(result) /\ DistinctNames(ScenarioList)) =>
    LET worst == result.worst_case_scenario
        after(name) == DictGet(result.scenarios, name).portfolio_value_after
    IN /\ worst.scenario_name \in {ScenarioList[i].name : i \in 1..Len(ScenarioList)}
       /\ worst.details = DictGet(result.scenarios, worst.scenario_name)
       /\ \A i \in 1..Len(ScenarioList) :
            /\ after(worst.scenario_name) <= after(ScenarioList[i].name)
            /\ after(ScenarioList[i].name) = after(worst.scenario_name) =>
                 FirstIndex(ScenarioList, worst.scenario_name) <= i

\* two scenarios tie for the lowest value and the first given is reported
C14_Witness ==
  /\ Done("perform_stress_test") /\ ~IsError(result)
  /\ Len(ScenarioList) = 2
  /\ ScenarioList[1].name # ScenarioList[2].name
  /\ result.scenarios[1].value.portfolio_value_after =
       result.scenarios[2].value.portfolio_value_after
  /\ result.worst_case_scenario.scenario_name = ScenarioList[1].name

\* the historical VaR the result reports under a key
VarAbsolute(key) == DictGet(result.var_estimates, key).var_absolute

\* C15: the historical VaR computed from 30 or more portfolio returns is
\* non-increasing in the confidence level: var_absolute at 99% is at most
\* var_absolute at 95%.
C15_VarMonotone ==
  (Done("calculate_var") /\ "var_estimates" \in DOMAIN result
     /\ {"95%", "99%"} \subseteq DictKeys(result.var_estimates)) =>
    VarAbsolute("99%") <= VarAbsolute("95%")

\* both levels computed from a two-asset portfolio, 99% strictly below 95%
C15_Witness ==
  /\ Done("calculate_var")
  /\ "var_estimates" \in DOMAIN result
  /\ {"95%", "99%"} \subseteq DictKeys(result.var_estimates)
  /\ Len(portfolio.assets) = 2
  /\ VarAbsolute("99%") < VarAbsolute("95%")

\* the symbols of the portfolio handed to calculate_var, in either shape
PortfolioSymbols(p) ==
  IF "holdings" \in DOMAIN p THEN {p.holdings[i].symbol : i \in 1..Len(p.holdings)}
  ELSE {p.assets[i].symbol : i \in 1..Len(p.assets)}

\* observations of the weighted portfolio return series: the fewest
\* returns of a symbol that has any, 0 when none has
WeightedObservations(p, pd) ==
  LET counts == {ReturnCount(pd, sym) : sym \in PortfolioSymbols(p)} \ {0}
  IN IF counts = {} THEN 0
     ELSE CHOOSE m \in counts : \A c \in counts : m <= c

\* every requested confidence level lies in (0, 1)
ValidLevels(levels) == \A i \in 1..Len(levels) : 0 < levels[i] /\ levels[i] < FP

\* C16: calculate_var returns the insufficient-data result, and no
\* estimates, exactly when the weighted portfolio return series has fewer
\* than 30 observations; with 30 or more it returns an estimate for every
\* requested confidence level.
C16_VarThreshold ==
  (Done("calculate_var") /\ ValidLevels(confidence_levels)) =>
    IF WeightedObservations(portfolio, price_data) < 30
    THEN result = [error |-> "Insufficient data for VaR calculation"]
    ELSE /\ ~IsError(result)
         /\ \A i \in 1..Len(confidence_levels) :
              ConfidenceKey(confidence_levels[i]) \in DictKeys(result.var_estimates)

\* a confidence level whose percentile np.percentile accepts
ComputableLevel(level) == (FP - level) * 100 >= 0 /\ (FP - level) * 100 <= 100 * FP

\* C17: each requested confidence level is computed independently: when
\* the computation of one level fails, the historical and parametric VaR
\* of the other requested levels are still in the returned result.
C17_LevelIsolation ==
  (Done("calculate_var") /\ "assets" \in DOMAIN portfolio
     /\ WeightedObservations(portfolio, price_data) >= 30) =>
    \A i \in 1..Len(confidence_levels) :
      ComputableLevel(confidence_levels[i]) =>
        /\ "var_estimates" \in DOMAIN result
        /\ ConfidenceKey(confidence_levels[i]) \in DictKeys(result.var_estimates)
        /\ ConfidenceKey(confidence_levels[i]) \in DictKeys(result.parametric_var)

\* C18: for a portfolio of exactly one asset the correlation analysis
\* reports an 'insufficient assets' result instead of a numeric matrix, and
\* the reported diversification_ratio is 1.0.
C18_SingleAsset ==
  (Done("assess_portfolio_risk") /\ ~IsError(result) /\ Len(portfolio.holdings) = 1) =>
    LET analysis == result.correlation_analysis
    IN /\ "message" \in DOMAIN analysis
       /\ {"correlation_matrix", "average_correlation"} \cap DOMAIN analysis = {}
       /\ "diversification_ratio" \in DOMAIN analysis
       /\ analysis.diversification_ratio = FP

\* the holdings' symbols whose price data yields no return / 10 or more
DroppedSymbols(hs, pd) == {hs[i].symbol : i \in {j \in 1..Len(hs) : ReturnCount(pd, hs[j].symbol) = 0}}

RemainingSymbols(hs, pd) ==
  {hs[i].symbol : i \in {j \in 1..Len(hs) : ReturnCount(pd, hs[j].symbol) >= 10}}

\* C19: a holding without returns is dropped without failing the stage:
\* when at least two other holdings have 10 or more returns each, the
\* correlation analysis returns a matrix over the remaining symbols and a
\* diversification ratio, not an error.
C19_DroppedHolding ==
  (Done("analyze_portfolio_correlations")
     /\ DroppedSymbols(portfolio.holdings, price_data) # {}
     /\ Cardinality(RemainingSymbols(portfolio.holdings, price_data)) >= 2
     /\ \A i \in 1..Len(portfolio.holdings) :
          portfolio.holdings[i].symbol \in
            DroppedSymbols(portfolio.holdings, price_data)
              \cup RemainingSymbols(portfolio.holdings, price_data)) =>
    /\ ~IsError(result)
    /\ "correlation_matrix" \in DOMAIN result
    /\ DOMAIN result.correlation_matrix = RemainingSymbols(portfolio.holdings, price_data)
    /\ "diversification_ratio" \in DOMAIN result

\* the records with a positive price, in order
PositivePrices(prices) == SelectSeq(prices, LAMBDA r : r.price > 0)

\* the simple returns of a series of positive prices
ReturnsOfPositive(valid) ==
  IF Len(valid) < 2 THEN <<>>
  ELSE [i \in 1..(Len(valid) - 1) |->
          Div((valid[i + 1].price - valid[i].price) * FP, valid[i].price)]

\* C20: records with a zero or negative price are excluded before the
\* returns are computed: the returns are those of the positive prices, so
\* no return comes from a division by a zero or negative price.
C20_PositivePricesOnly ==
  (Done("calculate_returns") /\ ~HasBadPrice(price_data.prices)) =>
    /\ "returns" \in DOMAIN result
    /\ result.returns = ReturnsOfPositive(PositivePrices(price_data.prices))

\* the 'prices' of the call, records with a positive price only
PositiveSeries(pd) ==
  /\ "prices" \in DOMAIN pd
  /\ ~HasBadPrice(pd.prices)
  /\ \A i \in 1..Len(pd.prices) : pd.prices[i].price > 0

StrictlyIncreasing(prices) ==
  \A i \in 1..(Len(prices) - 1) : prices[i].price < prices[i + 1].price

\* C21: for a strictly increasing price series of at least 2 points the
\* maximum drawdown is exactly 0.
C21_IncreasingNoDrawdown ==
  (Done("_assess_asset_risk") /\ PositiveSeries(price_data)
     /\ Len(price_data.prices) >= 2 /\ StrictlyIncreasing(price_data.prices)) =>
    /\ "max_drawdown" \in DOMAIN result
    /\ result.max_drawdown = 0

\* a strictly increasing series of three prices with drawdown 0
C21_Witness ==
  /\ Done("_assess_asset_risk") /\ PositiveSeries(price_data)
  /\ Len(price_data.prices) = 3 /\ StrictlyIncreasing(price_data.prices)
  /\ result.max_drawdown = 0

\* C23: price data with no 'prices' key, no price or one price gives
\* volatility 0, max_drawdown 0, sharpe_ratio 0 and beta 1.0; fewer than 30
\* returns give volatility 0 and beta 1.0; nothing is raised.
C23_MetricDefaults ==
  Done("_assess_asset_risk") =>
    LET prices == Get(price_data, "prices", <<>>) IN
    /\ Len(prices) < 2 =>
         /\ "uncaught" \notin DOMAIN result
         /\ result.volatility = 0
         /\ result.max_drawdown = 0
         /\ result.sharpe_ratio = 0
         /\ result.beta = FP
    /\ (~HasBadPrice(prices) /\ Len(prices) >= 2 /\ Len(prices) - 1 < 30) =>
         /\ "uncaught" \notin DOMAIN result
         /\ result.volatility = 0
         /\ result.beta = FP

\* a history of three differing prices (two returns) with the defaults
C23_Witness ==
  /\ Done("_assess_asset_risk")
  /\ "prices" \in DOMAIN price_data
  /\ Len(price_data.prices) = 3 /\ ~HasBadPrice(price_data.prices)
  /\ price_data.prices[1].price # price_data.prices[2].price
  /\ result.volatility = 0 /\ result.beta = FP

\* the largest fractional decline from an earlier price to a later one
PeakToTrough(prices) ==
  LET declines == {Div((prices[i].price - prices[j].price) * FP, prices[i].price) :
                     <<i, j>> \in {ij \in (1..Len(prices)) \X (1..Len(prices)) : ij[1] <= ij[2]}}
  IN CHOOSE m \in declines : \A d \in declines : d <= m

\* C25: the maximum drawdown is the largest peak-to-trough fractional
\* decline of the price series, the first price being a possible peak, and
\* lies in [0, 1] for positive prices (100, 50, 60 give 0.5).
C25_PeakToTrough ==
  (Done("_assess_asset_risk") /\ PositiveSeries(price_data) /\ Len(price_data.prices) >= 2) =>
    /\ "max_drawdown" \in DOMAIN result
    /\ result.max_drawdown >= 0 /\ result.max_drawdown <= FP
    /\ Abs(result.max_drawdown - PeakToTrough(price_data.prices)) <= 2

\* prices 100, 50, 60: the result is 0 where the decline is 0.5
C25_FirstPeakIgnored ==
  ~(/\ Done("_assess_asset_risk") /\ PositiveSeries(price_data)
    /\ [i \in 1..Len(price_data.prices) |-> price_data.prices[i].price] = <<100, 50, 60>>
    /\ result.max_drawdown = 0
    /\ PeakToTrough(price_data.prices) = 5000)

\* a step of assess_portfolio_risk leaves its arguments and the agent alone
ArgumentsKept ==
  /\ agent' = agent
  /\ (op = "assess_portfolio_risk" /\ pc \notin {"idle", "done"}) =>
       (portfolio' = portfolio /\ price_data' = price_data)

\* an assessment equals every one received earlier for the same arguments
SameAsReceived ==
  Done("assess_portfolio_risk") =>
    \A e \in received :
      (e.portfolio = portfolio /\ e.price_data = price_data) => e.result = result

\* C22: assess_portfolio_risk leaves the portfolio argument, the price_data
\* argument and the agent's fields unchanged, and a call with arguments used
\* before returns the same assessment, whatever was called in between (the
\* timestamp is not part of the state).
C22_Stateless == [][ArgumentsKept]_vars /\ []SameAsReceived

\* a second assessment of the same arguments, after an assessment of others
C22_Witness ==
  /\ Done("assess_portfolio_risk")
  /\ "risk_score" \in DOMAIN result
  /\ agent = AgentFields
  /\ Cardinality(received) >= 2
  /\ \E e \in received :
       e.portfolio = portfolio /\ e.price_data = price_data /\ e.result = result

\* the returns of a symbol's price history
ReturnsOf(pd, symbol) == calculate_returns(Get(pd, symbol, <<>>)).val

\* the weight-weighted sum of the assets' returns at position i of their
\* series truncated to the last L returns
AlignedReturn(assets, pd, L, i) ==
  SumSeq([a \in 1..Len(assets) |->
            IF ReturnCount(pd, assets[a].symbol) > 0
            THEN Div(assets[a].weight * LastN(ReturnsOf(pd, assets[a].symbol), L)[i], FP)
            ELSE 0])

\* C24: with L the shortest non-empty return series of the assets, the
\* portfolio return series has length L and its i-th element is the
\* weight-weighted sum of each asset's return at position i of returns[-L:],
\* the truncation the correlation analysis applies.
C24_SameAlignment ==
  Done("calculate_portfolio_returns") =>
    LET L == WeightedObservations(portfolio, price_data) IN
    /\ "portfolio_returns" \in DOMAIN result
    /\ Len(result.portfolio_returns) = L
    /\ \A i \in 1..L :
         result.portfolio_returns[i] = AlignedReturn(portfolio_data.assets, price_data, L, i)

\* two weighted assets with 30 and 10 returns: a series of 10
C24_Witness ==
  /\ Done("calculate_portfolio_returns")
  /\ \E a, b \in 1..Len(portfolio_data.assets) :
       /\ portfolio_data.assets[a].weight > 0 /\ portfolio_data.assets[b].weight > 0
       /\ ReturnCount(price_data, portfolio_data.assets[a].symbol) = LongSeries - 1
       /\ ReturnCount(price_data, portfolio_data.assets[b].symbol) = MidSeries - 1
  /\ Len(result.portfolio_returns) = MidSeries - 1
  /\ \E i \in 1..Len(result.portfolio_returns) : result.portfolio_returns[i] # 0

\* the condition of each rule, read off the assessment
LevelRule(ra) == ra.risk_level \in {"high", "very_high"}

VolatilityRule(ra) ==
  /\ "annual_volatility" \in DOMAIN ra.risk_metrics
  /\ ~IsNaN(ra.risk_metrics.annual_volatility)
  /\ ra.risk_metrics.annual_volatility > FP

CorrelationRule(ra) ==
  /\ "average_correlation" \in DOMAIN ra.correlation_analysis
  /\ ~IsNaN(ra.correlation_analysis.average_correlation)
  /\ ra.correlation_analysis.average_correlation > 7000

VarRule(ra) ==
  /\ "var_estimates" \in DOMAIN ra.var_analysis
  /\ \E i \in 1..Len(ra.var_analysis.var_estimates) :
       LET e == ra.var_analysis.var_estimates[i]
       IN e.key = "95%" /\ ~IsNaN(e.value.var_percentage)
            /\ Abs(e.value.var_percentage) > 10 * FP

ResilienceRule(ra) ==
  /\ "portfolio_resilience_score" \in DOMAIN ra.stress_test_results
  /\ ra.stress_test_results.portfolio_resilience_score < 30 * FP

AssetRule(ra) ==
  \E i \in 1..Len(ra.asset_risks) :
    ra.asset_risks[i].value.risk_level \in {"high", "very_high"}

\* the rule messages in their fixed order, each paired with its condition
RuleList(ra) ==
  << <<LevelRule(ra), RecReduce>>, <<LevelRule(ra), RecStopLoss>>,
     <<VolatilityRule(ra), RecVolatility>>, <<CorrelationRule(ra), RecCorrelation>>,
     <<VarRule(ra), RecVar>>, <<ResilienceRule(ra), RecResilience>>,
     <<AssetRule(ra), RecHighRiskAssets>> >>

RuleSubsequence(ra) ==
  LET holding == SelectSeq(RuleList(ra), LAMBDA rule : rule[1])
  IN [i \in 1..Len(holding) |-> holding[i][2]]

\* C26: each rule fires exactly when its own condition holds, and the
\* messages keep the order reduce, stop-loss, volatility, correlation,
\* hedging, resilience, high-risk assets: the output is the subsequence of
\* that list whose conditions hold (the fallback message when none does).
C26_RuleOrder ==
  Done("generate_risk_recommendations") =>
    IF RuleSubsequence(risk_assessment) # <<>>
    THEN result.recommendations = RuleSubsequence(risk_assessment)
    ELSE result.recommendations = <<RecAcceptable>>

\* the level rule is silent while the volatility, hedging and high-risk
\* asset rules fire together
C26_Witness ==
  /\ Done("generate_risk_recommendations")
  /\ ~LevelRule(risk_assessment) /\ ~CorrelationRule(risk_assessment)
  /\ ~ResilienceRule(risk_assessment)
  /\ result.recommendations = <<RecVolatility, RecVar, RecHighRiskAssets>>

PublicEntryPoints ==
  {"assess_portfolio_risk", "assess_asset_risk", "calculate_var", "perform_stress_test"}

\* C27: no public entry point lets an exception through: each returns a
\* dictionary, and one with an 'error' key whenever the computation failed
\* (malformed holdings, a failing helper, an empty scenario list).
C27_NoPropagation ==
  /\ (pc = "done" /\ op \in PublicEntryPoints) => "uncaught" \notin DOMAIN result
  /\ (Done("assess_portfolio_risk") /\ ~WellFormed(portfolio.holdings)) => IsError(result)
  /\ Done("assess_portfolio_risk") => (IsError(result) \/ "recommendations" \in DOMAIN result)
  /\ (Done("assess_asset_risk") /\ assess_asset_risk_try(portfolio.symbol, price_data).raised)
       => IsError(result)
  /\ (Done("calculate_var") /\ "assets" \notin DOMAIN portfolio) => IsError(result)
  /\ (Done("perform_stress_test")
        /\ (ScenarioList = <<>> \/ ~WellFormed(portfolio.holdings)))
       => IsError(result)

\* perform_stress_test on an empty scenario list, with holdings and a
\* positive starting value, returns the error dictionary
C27_Witness ==
  /\ Done("perform_stress_test")
  /\ ~scenarios.is_none /\ scenarios.list = <<>>
  /\ portfolio.holdings # <<>> /\ WellFormed(portfolio.holdings)
  /\ ConsistentValue(portfolio, price_data)
  /\ DOMAIN result = {"error"}

\* C28: the per-asset entries of an assessment returned by
\* assess_portfolio_risk carry no risk_level, so the 'High-risk assets
\* detected' recommendation is never among its recommendations.
C28_NoHighRiskListing ==
  (Done("assess_portfolio_risk") /\ ~IsError(result)) =>
    /\ \A i \in 1..Len(result.asset_risks) :
         "risk_level" \notin DOMAIN result.asset_risks[i].value
    /\ \A i \in 1..Len(result.recommendations) :
         result.recommendations[i] # RecHighRiskAssets

\* an assessment of two assets, one of them volatile, with a recommendation
\* of another rule
C28_Witness ==
  /\ Done("assess_portfolio_risk") /\ ~IsError(result)
  /\ Len(result.asset_risks) = 2
  /\ \E i \in 1..Len(result.asset_risks) : result.asset_risks[i].value.volatility > 0
  /\ result.recommendations # <<RecAcceptable>>
  /\ \A i \in 1..Len(result.recommendations) :
       result.recommendations[i] # RecHighRiskAssets

\* every shock of every scenario is -1 or more
ShocksFromMinusOne(list) ==
  \A i \in 1..Len(list) :
    \A k \in DOMAIN list[i].shocks : list[i].shocks[k] >= -FP

\* C29: for scenarios whose shocks are -1 or more and a portfolio with a
\* positive starting value, portfolio_resilience_score lies in [0, 100].
C29_ResilienceRange ==
  (Done("perform_stress_test") /\ ~IsError(result)
     /\ WellFormed(portfolio.holdings) /\ ConsistentValue(portfolio, price_data)
     /\ ShocksFromMinusOne(ScenarioList)) =>
    /\ result.portfolio_resilience_score >= 0
    /\ result.portfolio_resilience_score <= 100 * FP

\* a rally of ETH alone on a portfolio that holds ETH: the loss is
\* negative and the score exceeds 100
C29_AboveHundred ==
  ~(/\ Done("perform_stress_test") /\ ~IsError(result)
    /\ WellFormed(portfolio.holdings) /\ ConsistentValue(portfolio, price_data)
    /\ ~scenarios.is_none /\ Len(scenarios.list) = 1
    /\ scenarios.list[1].name = "eth_rally"
    /\ result.scenarios[1].value.percentage_loss < 0
    /\ result.portfolio_resilience_score > 100 * FP)

\* the distinct values of a list of confidence levels
DistinctLevels(levels) == {levels[i] : i \in 1..Len(levels)}

\* C30: var_estimates, expected_shortfall and parametric_var each hold one
\* entry per distinct confidence level requested, and scenarios holds one
\* entry per scenario of the input list.
C30_EntryPerItem ==
  /\ (Done("calculate_var") /\ ~IsError(result)) =>
       /\ Len(result.var_estimates) = Cardinality(DistinctLevels(confidence_levels))
       /\ Len(result.expected_shortfall) = Cardinality(DistinctLevels(confidence_levels))
       /\ Len(result.parametric_var) = Cardinality(DistinctLevels(confidence_levels))
  /\ (Done("perform_stress_test") /\ ~IsError(result)) =>
       Len(result.scenarios) = Len(ScenarioList)

\* levels 0.95 and 0.951: both are stored under '95%', one entry in all
C30_SharedKey ==
  ~(/\ Done("calculate_var") /\ ~IsError(result)
    /\ confidence_levels = <<9500, 9510>>
    /\ DictKeys(result.var_estimates) = {"95%"}
    /\ Len(result.var_estimates) = 1
    /\ Len(result.expected_shortfall) = 1
    /\ Len(result.parametric_var) = 1)

====
